---------------------------- MODULE Spec2Model ----------------------------
(***************************************************************************)
(* Model of the scoring, signal-detection, recommendation and backtesting  *)
(* engine of Stocks-analyzer (src/core/scorer.py, signals.py,              *)
(* recommender.py, loader.py).                                             *)
(*                                                                         *)
(* Numbers.  The program computes on floats; the model computes on         *)
(* integers in hundredths: a multiple (pcr, volume_times, delivery_times), *)
(* a percentage (change_pct, oi_change_pct, pcr_change_1d) and a price are *)
(* each stored times 100, so that the literal 0.7 of the source is 70 and  *)
(* the literal 10 (percent) is 1000.  Scores, points and counts are plain  *)
(* integers.                                                               *)
(*                                                                         *)
(* Snapshots.  A snapshot is a Python dict; the model keeps it as a        *)
(* function whose DOMAIN is the set of keys that are present, so that      *)
(* s.get(k, d) is Get(s, k, d).                                            *)
(***************************************************************************)
EXTENDS Integers, Sequences, FiniteSets, TLC

VARIABLES
    s,        \* the snapshot handed to the scoring functions
    data,     \* cache.data / sig_data: date -> symbol -> snapshot
    ohlc,     \* cache.ohlc: symbol -> date -> bar
    dates,    \* cache.dates / dates: ascending list of dates
    ret       \* the last call: [op |-> name, ...arguments..., val |-> result]

vars == <<s, data, ohlc, dates, ret>>

--------------------------------------------------------------------------
(* dict helpers *)

\* dict.get(k, d)
Get(d, k, dflt) == IF k \in DOMAIN d THEN d[k] ELSE dflt

\* d[k] = v on a copy of d
Put(d, k, v) == [x \in (DOMAIN d) \cup {k} |-> IF x = k THEN v ELSE d[x]]

\* del d[k] on a copy of d
Del(d, k) == [x \in (DOMAIN d) \ {k} |-> d[x]]

RECURSIVE SumOver(_, _)
SumOver(f, S) ==
    IF S = {} THEN 0
    ELSE LET x == CHOOSE y \in S : TRUE IN f[x] + SumOver(f, S \ {x})

\* sum(d.values())
SumValues(d) == SumOver(d, DOMAIN d)

\* no call is in progress and no result is held
NoCall == [op |-> "none"]

--------------------------------------------------------------------------
(* src/core/scorer.py *)

BULLISH == {"NewLong", "ShortCover"}

OI_SCORES_swapped ==
    [NewLong |-> 8, NewShort |-> -8, ShortCover |-> -8, LongCover |-> 8, Neutral |-> 0]

OI_SCORES ==
    [NewLong |-> 8, NewShort |-> -8, ShortCover |-> 8, LongCover |-> -8, Neutral |-> 0]

\* a slip in line 58: the bonus granted at pcr = 1.0 and at change_pct = 0 too
confluence_inclusive(pcr, vol, dlv, chg) == pcr <= 100 /\ vol > 100 /\ dlv > 100 /\ chg >= 0

\* scorer.py line 58
confluence(pcr, vol, dlv, chg) == pcr < 100 /\ vol > 100 /\ dlv > 100 /\ chg > 0

\* scorer.py lines 22-25
score_pcr(sc, pcr) ==
    IF pcr < 70 THEN sc + 7
    ELSE IF pcr <= 90 THEN sc + 6
    ELSE IF pcr <= 100 THEN sc + 3
    ELSE IF pcr > 120 THEN sc - 3
    ELSE sc

\* scorer.py lines 26-28
score_pcr_change(sc, pcr_chg, pcr) ==
    IF pcr_chg > 10 THEN sc - 3
    ELSE IF pcr_chg < -10 THEN sc + 3
    ELSE IF pcr_chg < 0 /\ pcr < 100 THEN sc + 2
    ELSE sc

\* scorer.py lines 31-35
score_oi_change(sc, oi) ==
    IF oi > 1000 THEN sc + 8
    ELSE IF oi > 500 THEN sc + 5
    ELSE IF oi > 200 THEN sc + 3
    ELSE IF oi > 0 THEN sc + 1
    ELSE IF oi <= -500 THEN sc - 3
    ELSE sc

\* scorer.py lines 38-42
score_volume(sc, vol) ==
    IF vol > 200 THEN sc + 5
    ELSE IF vol > 150 THEN sc + 4
    ELSE IF vol > 120 THEN sc + 2
    ELSE IF vol > 100 THEN sc + 1
    ELSE IF vol <= 70 THEN sc - 2
    ELSE sc

\* scorer.py lines 45-49
score_delivery(sc, dlv) ==
    IF dlv > 200 THEN sc + 7
    ELSE IF dlv > 150 THEN sc + 5
    ELSE IF dlv > 120 THEN sc + 3
    ELSE IF dlv > 100 THEN sc + 2
    ELSE IF dlv <= 70 THEN sc - 2
    ELSE sc

\* scorer.py lines 52-56
score_momentum(sc, chg) ==
    IF chg > 300 THEN sc + 5
    ELSE IF chg > 100 THEN sc + 2
    ELSE IF chg > -100 THEN sc + 0
    ELSE IF chg > -300 THEN sc - 1
    ELSE sc - 3

\* scorer.py lines 58-59
score_bonus(sc, pcr, vol, dlv, chg) ==
    IF confluence(pcr, vol, dlv, chg) THEN sc + 2 ELSE sc

base_score(snap) ==
    LET sc0 == Get(OI_SCORES, Get(snap, "oi_trend", ""), 0)
        pcr == Get(snap, "pcr", 0)
        pcr_chg == Get(snap, "pcr_change_1d", 0)
        sc1 == score_pcr(sc0, pcr)
        sc2 == score_pcr_change(sc1, pcr_chg, pcr)
        oi == Get(snap, "oi_change_pct", 0)
        sc3 == score_oi_change(sc2, oi)
        vol == Get(snap, "volume_times", 0)
        sc4 == score_volume(sc3, vol)
        dlv == Get(snap, "delivery_times", 0)
        sc5 == score_delivery(sc4, dlv)
        chg == Get(snap, "change_pct", 0)
        sc6 == score_momentum(sc5, chg)
    IN  score_bonus(sc6, pcr, vol, dlv, chg)

score_breakdown(snap) ==
    LET pcr == Get(snap, "pcr", 0)
        pcr_chg == Get(snap, "pcr_change_1d", 0)
        oi == Get(snap, "oi_change_pct", 0)
        vol == Get(snap, "volume_times", 0)
        dlv == Get(snap, "delivery_times", 0)
        chg == Get(snap, "change_pct", 0)
        v0 == IF pcr < 70 THEN 7
              ELSE IF pcr <= 90 THEN 6
              ELSE IF pcr <= 100 THEN 3
              ELSE IF pcr > 120 THEN -3
              ELSE 0
        v == IF pcr_chg > 10 THEN v0 - 3
             ELSE IF pcr_chg < -10 THEN v0 + 3
             ELSE IF pcr_chg < 0 /\ pcr < 100 THEN v0 + 2
             ELSE v0
    IN  ("OI Trend" :> Get(OI_SCORES, Get(snap, "oi_trend", ""), 0))
        @@ ("PCR" :> v)
        @@ ("OI Change" :> IF oi > 1000 THEN 8
                           ELSE IF oi > 500 THEN 5
                           ELSE IF oi > 200 THEN 3
                           ELSE IF oi > 0 THEN 1
                           ELSE IF oi <= -500 THEN -3
                           ELSE 0)
        @@ ("Volume" :> IF vol > 200 THEN 5
                        ELSE IF vol > 150 THEN 4
                        ELSE IF vol > 120 THEN 2
                        ELSE IF vol > 100 THEN 1
                        ELSE IF vol <= 70 THEN -2
                        ELSE 0)
        @@ ("Delivery" :> IF dlv > 200 THEN 7
                          ELSE IF dlv > 150 THEN 5
                          ELSE IF dlv > 120 THEN 3
                          ELSE IF dlv > 100 THEN 2
                          ELSE IF dlv <= 70 THEN -2
                          ELSE 0)
        @@ ("Momentum" :> IF chg > 300 THEN 5
                          ELSE IF chg > 100 THEN 2
                          ELSE IF chg > -100 THEN 0
                          ELSE IF chg > -300 THEN -1
                          ELSE -3)
        @@ ("Bonus" :> IF pcr < 100 /\ vol > 100 /\ dlv > 100 /\ chg > 0 THEN 2 ELSE 0)

\* a slip: the short squeeze counted 5 in conv while reasons still records 4
conv_trend_points_five(trend) ==
    IF trend = "ShortCover" THEN 5 ELSE IF trend = "NewLong" THEN 3 ELSE 0

\* conv += 4 / conv += 3 of scorer.py lines 135-138
conv_trend_points(trend) ==
    IF trend = "ShortCover" THEN 4 ELSE IF trend = "NewLong" THEN 3 ELSE 0

\* reasons[factor] is the pair (points, text); of a formatted text the model
\* keeps the fixed phrase
outrunner_conviction(snap) ==
    LET trend == Get(snap, "oi_trend", "")
        r1 == IF trend = "ShortCover" THEN <<4, "Short squeeze">>
              ELSE IF trend = "NewLong" THEN <<3, "Strong long buildup">>
              ELSE <<0, "Bearish/Neutral trend">>
        c1 == conv_trend_points(trend)
        mcap == Get(snap, "mcap_category", "")
        r2 == IF mcap = "Mid Cap" THEN <<3, "Mid Cap">>
              ELSE IF mcap = "Large Cap" THEN <<1, "Large Cap">>
              ELSE IF mcap = "Small Cap" THEN <<1, "Small Cap">>
              ELSE <<0, "Unknown cap">>
        c2 == c1 + r2[1]
        vol == Get(snap, "volume_times", 0)
        r3 == IF vol >= 200 THEN <<3, "strong activity">>
              ELSE IF vol >= 150 THEN <<2, "above average">>
              ELSE IF vol >= 100 THEN <<1, "normal">>
              ELSE <<0, "low volume">>
        c3 == c2 + r3[1]
        dlv == Get(snap, "delivery_times", 0)
        r4 == IF dlv >= 200 THEN <<3, "big hands buying">>
              ELSE IF dlv >= 150 THEN <<2, "good conviction">>
              ELSE IF dlv >= 100 THEN <<1, "normal">>
              ELSE <<0, "low delivery">>
        c4 == c3 + r4[1]
        chg == Get(snap, "change_pct", 0)
        r5 == IF chg >= 300 THEN <<3, "strong momentum">>
              ELSE IF chg >= 100 THEN <<2, "positive trend">>
              ELSE IF chg >= 0 THEN <<1, "flat/mild">>
              ELSE <<0, "negative">>
        c5 == c4 + r5[1]
        pcr == Get(snap, "pcr", 100)
        pcr_chg == Get(snap, "pcr_change_1d", 0)
        r6 == IF pcr < 70 /\ pcr_chg < 0 THEN <<2, "dropping">>
              ELSE IF pcr < 90 THEN <<1, "bullish zone">>
              ELSE <<0, "neutral/bearish">>
        c6 == c5 + r6[1]
        oi == Get(snap, "oi_change_pct", 0)
        r7 == IF oi >= 500 THEN <<1, "strong positioning">> ELSE <<0, "">>
        c7 == c6 + r7[1]
    IN  [ conviction |-> c7,
          max_conviction |-> 19,
          reasons |-> ("OI Trend" :> r1) @@ ("MCap" :> r2) @@ ("Volume" :> r3)
                      @@ ("Delivery" :> r4) @@ ("Momentum" :> r5)
                      @@ ("PCR Signal" :> r6) @@ ("OI Buildup" :> r7) ]

--------------------------------------------------------------------------
(* Lists and ordered dicts.  data[date] is the dict symbol -> snapshot of   *)
(* one date; the model keeps it as the sequence of its snapshots in         *)
(* insertion order, each carrying its "symbol".                             *)

\* data.get(date, {})
Day(d, date) == IF date \in DOMAIN d THEN d[date] ELSE <<>>

\* sym in day
HasSym(day, sym) == \E i \in 1..Len(day) : day[i]["symbol"] = sym

\* day[sym], for sym in day
SnapOf(day, sym) == day[CHOOSE i \in 1..Len(day) : day[i]["symbol"] = sym]

\* tuple comparison a < b, as Python compares the keys of a sort
LexLess(a, b) ==
    \E i \in 1..Len(a) :
        /\ \A j \in 1..(i - 1) : a[j] = b[j]
        /\ a[i] < b[i]

\* list.sort(key=..., reverse=True) on a list of <<key, item>> pairs: stable,
\* so an item goes behind every item whose key is not smaller
InsertDesc(r, p) ==
    LET smaller == {i \in 1..Len(r) : LexLess(r[i][1], p[1])}
        at == IF smaller = {} THEN Len(r) + 1
              ELSE CHOOSE i \in smaller : \A j \in smaller : i <= j
    IN  SubSeq(r, 1, at - 1) \o <<p>> \o SubSeq(r, at, Len(r))

RECURSIVE SortDescPairs(_)
SortDescPairs(pairs) ==
    IF pairs = <<>> THEN <<>>
    ELSE InsertDesc(SortDescPairs(SubSeq(pairs, 1, Len(pairs) - 1)), pairs[Len(pairs)])

\* list.sort(key=...) ascending on a list of <<key, item>> pairs: stable
InsertAsc(r, p) ==
    LET larger == {i \in 1..Len(r) : LexLess(p[1], r[i][1])}
        at == IF larger = {} THEN Len(r) + 1
              ELSE CHOOSE i \in larger : \A j \in larger : i <= j
    IN  SubSeq(r, 1, at - 1) \o <<p>> \o SubSeq(r, at, Len(r))

RECURSIVE SortAscPairs(_)
SortAscPairs(pairs) ==
    IF pairs = <<>> THEN <<>>
    ELSE InsertAsc(SortAscPairs(SubSeq(pairs, 1, Len(pairs) - 1)), pairs[Len(pairs)])

\* the items of a list of <<key, item>> pairs
Items(pairs) == [i \in 1..Len(pairs) |-> pairs[i][2]]

\* lst[:n] for n >= 0
Take(lst, n) == SubSeq(lst, 1, IF n < Len(lst) THEN n ELSE Len(lst))

\* lst[-n:] for 1 <= n <= len(lst)
LastN(lst, n) == SubSeq(lst, Len(lst) - n + 1, Len(lst))

--------------------------------------------------------------------------
(* src/core/signals.py: detectors *)

\* a slip: Neutral taken for a bearish trend
BEARISH_TRENDS_with_neutral == {"NewShort", "LongCover", "Neutral"}

\* signals.py line 11
BEARISH_TRENDS == {"NewShort", "LongCover"}

\* the flip record of signals.py lines 102-115
FlipRecord(s_today, s_yest) ==
    [ symbol |-> s_today["symbol"],
      prev_trend |-> Get(s_yest, "oi_trend", ""),
      new_trend |-> Get(s_today, "oi_trend", ""),
      close |-> Get(s_today, "close", 0),
      change_pct |-> Get(s_today, "change_pct", 0),
      pcr |-> Get(s_today, "pcr", 0),
      volume_times |-> Get(s_today, "volume_times", 0),
      delivery_times |-> Get(s_today, "delivery_times", 0),
      sector |-> Get(s_today, "sector", ""),
      mcap_category |-> Get(s_today, "mcap_category", ""),
      score |-> base_score(s_today),
      conviction |-> outrunner_conviction(s_today).conviction ]

\* signals.py lines 95-101: the condition under which a snapshot of today is kept
Flipped(s_today, yesterday) ==
    /\ HasSym(yesterday, s_today["symbol"])
    /\ Get(SnapOf(yesterday, s_today["symbol"]), "oi_trend", "") \in BEARISH_TRENDS
    /\ Get(s_today, "oi_trend", "") \in BULLISH

\* signals.py lines 95-115: the records of the kept snapshots, in dict order
FlipRows(hits, yesterday) ==
    [i \in 1..Len(hits) |-> FlipRecord(hits[i], SnapOf(yesterday, hits[i]["symbol"]))]

\* signals.py line 116
SortByConviction(rows) ==
    Items(SortDescPairs([i \in 1..Len(rows) |-> << <<rows[i].conviction>>, rows[i] >>]))

TodayFlips(today, yesterday) ==
    SortByConviction(FlipRows(SelectSeq(today, LAMBDA x : Flipped(x, yesterday)), yesterday))

detect_trend_flips(d, dts) ==
    IF Len(dts) < 2 THEN <<>>
    ELSE TodayFlips(Day(d, dts[Len(dts)]), Day(d, dts[Len(dts) - 1]))

\* the entries of sym_days / sym_latest after one more snapshot of a recent date:
\* a sequence of [symbol, count, latest] in the order the symbols were first counted
StreakCount(acc, snap, lo, hi) ==
    LET sc == base_score(snap) IN
    IF ~(lo <= sc /\ sc <= hi) THEN acc
    ELSE IF \E i \in 1..Len(acc) : acc[i].symbol = snap["symbol"]
         THEN [i \in 1..Len(acc) |->
                  IF acc[i].symbol = snap["symbol"]
                  THEN [symbol |-> acc[i].symbol, count |-> acc[i].count + 1, latest |-> snap]
                  ELSE acc[i]]
         ELSE Append(acc, [symbol |-> snap["symbol"], count |-> 1, latest |-> snap])

RECURSIVE StreakDay(_, _, _, _)
StreakDay(acc, day, lo, hi) ==
    IF day = <<>> THEN acc
    ELSE StreakDay(StreakCount(acc, Head(day), lo, hi), Tail(day), lo, hi)

RECURSIVE StreakDays(_, _, _, _, _)
StreakDays(acc, d, recent, lo, hi) ==
    IF recent = <<>> THEN acc
    ELSE StreakDays(StreakDay(acc, Day(d, Head(recent)), lo, hi), d, Tail(recent), lo, hi)

\* a slip: a symbol qualifies with one day less than min_days
StreakEnough_off_by_one(count, min_days) == count >= min_days - 1

\* signals.py line 369
StreakEnough(count, min_days) == count >= min_days

\* the streak record of signals.py lines 371-384
StreakRecord(e) ==
    [ symbol |-> e.symbol,
      streak_days |-> e.count,
      score |-> base_score(e.latest),
      conviction |-> outrunner_conviction(e.latest).conviction,
      close |-> Get(e.latest, "close", 0),
      change_pct |-> Get(e.latest, "change_pct", 0),
      oi_trend |-> Get(e.latest, "oi_trend", ""),
      pcr |-> Get(e.latest, "pcr", 0),
      volume_times |-> Get(e.latest, "volume_times", 0),
      delivery_times |-> Get(e.latest, "delivery_times", 0),
      sector |-> Get(e.latest, "sector", ""),
      mcap_category |-> Get(e.latest, "mcap_category", "") ]

\* signals.py lines 368-384: the records of the symbols counted often enough
StreakRows(sym_days, min_days) ==
    [e \in DOMAIN SelectSeq(sym_days, LAMBDA x : StreakEnough(x.count, min_days)) |->
        StreakRecord(SelectSeq(sym_days, LAMBDA x : StreakEnough(x.count, min_days))[e])]

\* signals.py line 385
SortByStreak(rows) ==
    Items(SortDescPairs([i \in 1..Len(rows) |->
        << <<rows[i].streak_days, rows[i].conviction>>, rows[i] >>]))

\* score_streaks for min_days >= 1
score_streaks(d, dts, min_days, lo, hi) ==
    IF Len(dts) < min_days THEN <<>>
    ELSE SortByStreak(StreakRows(StreakDays(<<>>, d, LastN(dts, min_days), lo, hi), min_days))

--------------------------------------------------------------------------
(* src/core/signals.py: numbers.  A number that may be None is <<>> when    *)
(* it is None and <<x>> otherwise; round(x, 2) of a quotient is the nearest *)
(* hundredth, a tie going to the even one.                                  *)

Nothing == <<>>
Some(x) == <<x>>

\* round(): q and r are the floor quotient and the remainder by den > 0
RoundHalfEven(q, r, den) ==
    IF 2 * r < den THEN q
    ELSE IF 2 * r > den THEN q + 1
    ELSE IF q % 2 = 0 THEN q ELSE q + 1

\* round(num / den) for den > 0
RoundDiv(num, den) == RoundHalfEven(num \div den, num % den, den)

\* signals.py lines 65-70, the result in hundredths of a percent
PctChg(curr, prev) ==
    IF prev = 0 THEN Nothing
    ELSE IF prev > 0 THEN Some(RoundDiv((curr - prev) * 10000, prev))
    ELSE Some(RoundDiv((prev - curr) * 10000, 0 - prev))

\* data.get(date, {}).get(sym): the snapshot, or None
Lookup(day, sym) == IF HasSym(day, sym) THEN SnapOf(day, sym) ELSE [none |-> TRUE]

\* signals.py lines 73-86
enrich_oi_change_pct(stock, prev_stock) ==
    IF "symbol" \in DOMAIN prev_stock
    THEN Put(Put(stock, "call_oi_change_pct",
                 PctChg(Get(stock, "cumulative_call_oi", 0),
                        Get(prev_stock, "cumulative_call_oi", 0))),
             "put_oi_change_pct",
             PctChg(Get(stock, "cumulative_put_oi", 0),
                    Get(prev_stock, "cumulative_put_oi", 0)))
    ELSE Put(Put(stock, "call_oi_change_pct", Nothing), "put_oi_change_pct", Nothing)

\* signals.py lines 503-508: call_chg = (curr - prev) / prev against 0.02
CallPutVerdict(curr_call, prev_call, curr_put, prev_put) ==
    IF prev_call <= 0 \/ prev_put <= 0 THEN "none"
    ELSE IF /\ (curr_call - prev_call) * 100 > 2 * prev_call
            /\ (curr_put - prev_put) * 100 < (0 - 2) * prev_put THEN "bullish"
    ELSE IF /\ (curr_call - prev_call) * 100 < (0 - 2) * prev_call
            /\ (curr_put - prev_put) * 100 > 2 * prev_put THEN "bearish"
    ELSE "none"

\* signals.py lines 492-508; "none" stands for None
call_put_divergence(stock, prev_stock) ==
    IF "symbol" \notin DOMAIN prev_stock THEN "none"
    ELSE CallPutVerdict(Get(stock, "cumulative_call_oi", 0),
                        Get(prev_stock, "cumulative_call_oi", 0),
                        Get(stock, "cumulative_put_oi", 0),
                        Get(prev_stock, "cumulative_put_oi", 0))

\* the entry of signals.py lines 306-314
PcrEntry(snap) ==
    [ symbol |-> snap["symbol"],
      pcr |-> Get(snap, "pcr", 100),
      pcr_change_1d |-> Get(snap, "pcr_change_1d", 0),
      close |-> Get(snap, "close", 0),
      change_pct |-> Get(snap, "change_pct", 0),
      oi_trend |-> Get(snap, "oi_trend", ""),
      sector |-> Get(snap, "sector", ""),
      mcap_category |-> Get(snap, "mcap_category", "") ]

\* lst.sort(key=lambda x: x[key]) and its reverse=True form
SortAscBy(rows, key) ==
    Items(SortAscPairs([i \in 1..Len(rows) |-> << <<rows[i][key]>>, rows[i] >>]))

SortDescBy(rows, key) ==
    Items(SortDescPairs([i \in 1..Len(rows) |-> << <<rows[i][key]>>, rows[i] >>]))

PcrEntries(hits) == [i \in 1..Len(hits) |-> PcrEntry(hits[i])]

\* signals.py lines 300-321
pcr_extremes(d, date, low_thresh, high_thresh) ==
    [ low_pcr |->
          SortAscBy(PcrEntries(SelectSeq(Day(d, date),
              LAMBDA x : Get(x, "pcr", 100) <= low_thresh)), "pcr"),
      high_pcr |->
          SortDescBy(PcrEntries(SelectSeq(Day(d, date),
              LAMBDA x : /\ Get(x, "pcr", 100) > low_thresh
                         /\ Get(x, "pcr", 100) >= high_thresh)), "pcr") ]

\* the entry of signals.py lines 332-343
SpikeEntry(snap) ==
    [ symbol |-> snap["symbol"],
      delivery_times |-> Get(snap, "delivery_times", 0),
      volume_times |-> Get(snap, "volume_times", 0),
      close |-> Get(snap, "close", 0),
      change_pct |-> Get(snap, "change_pct", 0),
      oi_trend |-> Get(snap, "oi_trend", ""),
      pcr |-> Get(snap, "pcr", 0),
      sector |-> Get(snap, "sector", ""),
      mcap_category |-> Get(snap, "mcap_category", ""),
      score |-> base_score(snap) ]

SpikeEntries(hits) == [i \in 1..Len(hits) |-> SpikeEntry(hits[i])]

\* signals.py lines 326-345
delivery_spikes(d, date, thresh) ==
    SortDescBy(SpikeEntries(SelectSeq(Day(d, date),
        LAMBDA x : Get(x, "delivery_times", 0) >= thresh)), "delivery_times")

\* the symbols of a list of rows
SymbolSet(rows) == {rows[i].symbol : i \in 1..Len(rows)}

\* signals.py lines 474-487: the signals of one snapshot of the view date
SignalsOf(snap, prev_snap, flips, pcr_syms, spikes, streaks) ==
    (IF snap["symbol"] \in flips THEN <<"Flip">> ELSE <<>>)
    \o (IF snap["symbol"] \in pcr_syms THEN <<"PCR">> ELSE <<>>)
    \o (IF snap["symbol"] \in spikes THEN <<"Dlv">> ELSE <<>>)
    \o (IF snap["symbol"] \in streaks THEN <<"Streak">> ELSE <<>>)
    \o (IF call_put_divergence(snap, prev_snap) = "bullish" THEN <<"CallPut">> ELSE <<>>)

\* signals.py lines 474-488: the dict symbol -> signals, without the symbols
\* that have none
ConvergenceMap(day, prev_data, flips, pcr_syms, spikes, streaks) ==
    [sym \in {day[i]["symbol"] : i \in
                 {j \in 1..Len(day) :
                     SignalsOf(day[j], Lookup(prev_data, day[j]["symbol"]),
                               flips, pcr_syms, spikes, streaks) # <<>>}} |->
        SignalsOf(SnapOf(day, sym), Lookup(prev_data, sym),
                  flips, pcr_syms, spikes, streaks)]

\* data[dates[-2]] for a list of at least two dates, {} otherwise
PrevData(d, dts) == IF Len(dts) >= 2 THEN Day(d, dts[Len(dts) - 1]) ELSE <<>>

\* signals.py lines 453-489
signal_convergence(d, dts, view_date) ==
    IF dts = <<>> \/ view_date \notin DOMAIN d THEN <<>>
    ELSE ConvergenceMap(Day(d, view_date), PrevData(d, dts),
             SymbolSet(detect_trend_flips(d, dts)),
             SymbolSet(pcr_extremes(d, view_date, 50, 150).low_pcr)
                 \cup SymbolSet(pcr_extremes(d, view_date, 50, 150).high_pcr),
             SymbolSet(delivery_spikes(d, view_date, 200)),
             SymbolSet(score_streaks(d, dts, 3, 20, 34)))

--------------------------------------------------------------------------
(* src/core/signals.py: sector rotation.  A dict sector -> stats is the     *)
(* sequence of its entries in insertion order, each carrying its sector.    *)
(* Averages, deltas and the composite score are computed on the decimal     *)
(* values; the binary floating point of the code differs from them only     *)
(* when a quotient falls exactly between two hundredths or a delta exactly  *)
(* on a threshold, which the snapshots of the specifications avoid.         *)

\* signals.py lines 133-137
SectorFilter(d, date, mcap_filter) ==
    IF mcap_filter = "All" THEN Day(d, date)
    ELSE SelectSeq(Day(d, date), LAMBDA x : Get(x, "mcap_category", "") = mcap_filter)

AppendNew(seq, x) == IF \E i \in 1..Len(seq) : seq[i] = x THEN seq ELSE Append(seq, x)

\* the keys of by_sec, in the order the loop of lines 145-147 creates them
RECURSIVE SectorsOf(_)
SectorsOf(stocks) ==
    IF stocks = <<>> THEN <<>>
    ELSE AppendNew(SectorsOf(SubSeq(stocks, 1, Len(stocks) - 1)),
                   Get(stocks[Len(stocks)], "sector", "?"))

\* d[key + "_sum"] of lines 151-157 for one sector
SectorSum(stocks, sec, key) ==
    SumOver([i \in 1..Len(stocks) |->
                IF Get(stocks[i], "sector", "?") = sec THEN Get(stocks[i], key, 0) ELSE 0],
            1..Len(stocks))

SectorCount(stocks, sec) ==
    Cardinality({i \in 1..Len(stocks) : Get(stocks[i], "sector", "?") = sec})

SectorBull(stocks, sec) ==
    Cardinality({i \in 1..Len(stocks) :
                    /\ Get(stocks[i], "sector", "?") = sec
                    /\ Get(stocks[i], "oi_trend", "") \in BULLISH})

\* signals.py lines 163-173: bull_pct in tenths of a percent, the averages in
\* hundredths, the OI sums as they are
SectorStat(stocks, sec, n) ==
    [ sector |-> sec,
      count |-> n,
      bull_pct |-> RoundDiv(SectorBull(stocks, sec) * 1000, n),
      avg_chg |-> RoundDiv(SectorSum(stocks, sec, "change_pct"), n),
      avg_pcr |-> RoundDiv(SectorSum(stocks, sec, "pcr"), n),
      avg_vol |-> RoundDiv(SectorSum(stocks, sec, "volume_times"), n),
      avg_dlv |-> RoundDiv(SectorSum(stocks, sec, "delivery_times"), n),
      avg_oi_chg |-> RoundDiv(SectorSum(stocks, sec, "oi_change_pct"), n),
      call_oi_sum |-> SectorSum(stocks, sec, "cumulative_call_oi"),
      put_oi_sum |-> SectorSum(stocks, sec, "cumulative_put_oi") ]

SectorStats(stocks, secs) ==
    [i \in 1..Len(secs) |-> SectorStat(stocks, secs[i], SectorCount(stocks, secs[i]))]

\* signals.py lines 139-174
sector_stats(stocks) == SectorStats(stocks, SectorsOf(stocks))

\* stats.get(sec, dflt)
StatGet(stats, sec, dflt) ==
    IF \E i \in 1..Len(stats) : stats[i].sector = sec
    THEN stats[CHOOSE i \in 1..Len(stats) : stats[i].sector = sec]
    ELSE dflt

\* signals.py lines 21-31, the result in hundredths
Norm(v) ==
    IF v >= 150 THEN 100
    ELSE IF v >= 100 THEN (v - 100) * 2
    ELSE IF v >= 50 THEN 0 - 50
    ELSE 0 - 100

\* (1 if x > t else (-1 if x < -t else 0))
Sign3(x, t) == IF x > t THEN 1 ELSE IF x < 0 - t THEN 0 - 1 ELSE 0

\* the contribution of an aggregate OI change that may be None
OptSign3(x, t) == IF x = Nothing THEN 0 ELSE Sign3(x[1], t)

DirectionWeights_delivery_quarter == <<2500, 1500, 2000, 1500, 2000, 1500, 1500, 1000, 1000>>

\* signals.py lines 43-57: the weights 0.2, 0.15, 0.2, 0.15, 0.2, 0.15, 0.15,
\* 0.1, 0.1 of the contributions, in ten-thousandths and in the order of the code
DirectionWeights == <<2000, 1500, 2000, 1500, 2000, 1500, 1500, 1000, 1000>>

\* signals.py lines 33-57: the composite score in ten-thousandths; a level
\* _norm(v) is in hundredths
DirectionSum(dlv_now, dlv_past, vol_now, vol_past, avg_chg, oi_chg, chg_delta, agg_call_chg, agg_put_chg) ==
    (Norm(dlv_now) * DirectionWeights[1]) \div 100
    + Sign3(dlv_now - dlv_past, 10) * DirectionWeights[2]
    + (Norm(vol_now) * DirectionWeights[3]) \div 100
    + Sign3(vol_now - vol_past, 10) * DirectionWeights[4]
    + Sign3(avg_chg, 100) * DirectionWeights[5]
    + Sign3(chg_delta, 50) * DirectionWeights[6]
    + Sign3(oi_chg, 200) * DirectionWeights[7]
    + OptSign3(agg_call_chg, 200) * DirectionWeights[8]
    - OptSign3(agg_put_chg, 200) * DirectionWeights[9]

\* signals.py lines 14-62: the second component of the result, round(score, 2),
\* in hundredths
compute_sector_direction(now, past, prev, chg_delta, agg_call_chg, agg_put_chg) ==
    RoundDiv(DirectionSum(Get(now, "avg_dlv", 0),
                          Get(past, "avg_dlv", Get(now, "avg_dlv", 0)),
                          Get(now, "avg_vol", 0),
                          Get(past, "avg_vol", Get(now, "avg_vol", 0)),
                          Get(now, "avg_chg", 0),
                          Get(now, "avg_oi_chg", 0),
                          chg_delta, agg_call_chg, agg_put_chg), 100)

\* signals.py line 61: the label, decided on the score before it is rounded
\* (here in ten-thousandths) against the threshold 0.3
DirectionLabel(score) ==
    IF score > 3000 THEN "Improving" ELSE IF score < -3000 THEN "Declining" ELSE "Stable"

\* signals.py lines 14-62: the first component of the result
compute_sector_direction_label(now, past, prev, chg_delta, agg_call_chg, agg_put_chg) ==
    DirectionLabel(DirectionSum(Get(now, "avg_dlv", 0),
                                Get(past, "avg_dlv", Get(now, "avg_dlv", 0)),
                                Get(now, "avg_vol", 0),
                                Get(past, "avg_vol", Get(now, "avg_vol", 0)),
                                Get(now, "avg_chg", 0),
                                Get(now, "avg_oi_chg", 0),
                                chg_delta, agg_call_chg, agg_put_chg))

\* an empty dict
EmptyDict == [x \in {} |-> 0]

\* signals.py lines 217-248: the row of one sector, without its stocks_list
RotationRow(now, past, prev) ==
    [ Sector |-> now.sector,
      Stocks |-> now.count,
      Agg_Chg |-> now.avg_chg,
      Chg_Delta |-> now.avg_chg - Get(past, "avg_chg", 0),
      Vol |-> now.avg_vol,
      Dlv |-> now.avg_dlv,
      PCR |-> now.avg_pcr,
      PCR_Delta |-> now.avg_pcr - Get(past, "avg_pcr", now.avg_pcr),
      Agg_Call_OI |-> now.call_oi_sum,
      Agg_Call_OI_Chg |-> PctChg(now.call_oi_sum, Get(prev, "call_oi_sum", 0)),
      Agg_Put_OI |-> now.put_oi_sum,
      Agg_Put_OI_Chg |-> PctChg(now.put_oi_sum, Get(prev, "put_oi_sum", 0)),
      Direction |->
          compute_sector_direction_label(now, past, prev,
              now.avg_chg - Get(past, "avg_chg", 0),
              PctChg(now.call_oi_sum, Get(prev, "call_oi_sum", 0)),
              PctChg(now.put_oi_sum, Get(prev, "put_oi_sum", 0))),
      direction_score |->
          compute_sector_direction(now, past, prev,
              now.avg_chg - Get(past, "avg_chg", 0),
              PctChg(now.call_oi_sum, Get(prev, "call_oi_sum", 0)),
              PctChg(now.put_oi_sum, Get(prev, "put_oi_sum", 0))) ]

\* signals.py lines 216-220: past and prev of one sector
RotationOf(now, past, stats_prev_day) ==
    RotationRow(now, past, StatGet(stats_prev_day, now.sector, past))

\* signals.py lines 215-252: the rows in the order of stats_now
RotationRows(stats_now, stats_past, stats_prev_day) ==
    [i \in 1..Len(stats_now) |->
        RotationOf(stats_now[i], StatGet(stats_past, stats_now[i].sector, EmptyDict),
                   stats_prev_day)]

\* signals.py line 253
SortRotations(rows) ==
    Items(SortDescPairs([i \in 1..Len(rows) |->
        << <<rows[i].direction_score, rows[i].Agg_Chg>>, rows[i] >>]))

\* signals.py lines 128-131: the window in use
WindowOf(n, window) ==
    IF window = 0 THEN 0
    ELSE IF n < window + 1 THEN (IF n - 1 > 1 THEN n - 1 ELSE 1)
    ELSE window

\* a slip: the same-day window 0 taken for the window of one day
PastStats_same_day_as_one(d, dts, w, mcap_filter) ==
    IF w > 0
    THEN sector_stats(SectorFilter(d,
             dts[(IF Len(dts) - w - 1 > 0 THEN Len(dts) - w - 1 ELSE 0) + 1], mcap_filter))
    ELSE sector_stats(SectorFilter(d, dts[Len(dts) - 1], mcap_filter))

\* signals.py lines 203-208: the past date, dates[max(0, len(dates) - window - 1)]
PastStats(d, dts, w, mcap_filter) ==
    IF w > 0
    THEN sector_stats(SectorFilter(d,
             dts[(IF Len(dts) - w - 1 > 0 THEN Len(dts) - w - 1 ELSE 0) + 1], mcap_filter))
    ELSE <<>>

\* signals.py lines 122-254
sector_rotation(d, dts, window, mcap_filter) ==
    IF Len(dts) < 2 THEN <<>>
    ELSE SortRotations(RotationRows(
             sector_stats(SectorFilter(d, dts[Len(dts)], mcap_filter)),
             PastStats(d, dts, WindowOf(Len(dts), window), mcap_filter),
             sector_stats(SectorFilter(d, dts[Len(dts) - 1], mcap_filter))))

--------------------------------------------------------------------------
(* src/core/recommender.py *)

\* recommender.py lines 104-115: the rows whose Sector and direction_score
\* make the dict
get_sector_bull_delta(d, dts, view_date, mcap_filter) ==
    IF Len(dts) < 2 THEN <<>> ELSE sector_rotation(d, dts, 5, mcap_filter)

\* sector_rot.get(sector, 0): of two rows of one sector the later one counts
SectorScore(rot, sec) ==
    IF \E i \in 1..Len(rot) : rot[i].Sector = sec
    THEN rot[CHOOSE i \in 1..Len(rot) :
                 /\ rot[i].Sector = sec
                 /\ \A j \in (i + 1)..Len(rot) : rot[j].Sector # sec].direction_score
    ELSE 0

\* a slip: the sweet spot taken one point too wide on both sides
SweetSpot_wide(sc) == sc >= 19 /\ sc <= 35

\* recommender.py line 58: not (sc < 20 or sc > 34)
SweetSpot(sc) == ~(sc < 20 \/ sc > 34)

\* a slip: a sector score of exactly 0 earns nothing
SectorBonus_positive_only(sector_dir_score) ==
    IF sector_dir_score > 30 THEN 3 ELSE IF sector_dir_score > 0 THEN 1 ELSE 0

\* recommender.py line 70
SectorBonus(sector_dir_score) ==
    IF sector_dir_score > 30 THEN 3 ELSE IF sector_dir_score >= 0 THEN 1 ELSE 0

\* recommender.py lines 51-66: the snapshot is not skipped
Kept(snap, prev_snap, mcap_filter, min_conv, min_score, watchlist, sweet_spot_only) ==
    /\ ~(mcap_filter # "All" /\ Get(snap, "mcap_category", "") # mcap_filter)
    /\ ~(Get(snap, "volume_times", 0) < 70 /\ Get(snap, "pcr", 100) >= 100)
    /\ ~(sweet_spot_only /\ ~SweetSpot(base_score(snap)))
    /\ ~(outrunner_conviction(enrich_oi_change_pct(snap, prev_snap)).conviction < min_conv)
    /\ ~(base_score(snap) < min_score)
    /\ ~(watchlist # {} /\ snap["symbol"] \notin watchlist)

\* recommender.py lines 68-98: the row of a kept snapshot; of the fields copied
\* from the snapshot the row keeps those read with a default, and those the
\* enrichment computes
ActionRow(snap, enriched, signals, sector_dir_score) ==
    [ symbol |-> snap["symbol"],
      conviction |-> outrunner_conviction(enriched).conviction,
      score |-> base_score(snap),
      rec_score |-> outrunner_conviction(enriched).conviction + base_score(snap)
                    + Len(signals) * 2 + SectorBonus(sector_dir_score),
      signals |-> signals,
      volume_times |-> Get(snap, "volume_times", 0),
      delivery_times |-> Get(snap, "delivery_times", 0),
      call_oi_change_pct |-> Get(enriched, "call_oi_change_pct", Nothing),
      put_oi_change_pct |-> Get(enriched, "put_oi_change_pct", Nothing),
      pcr |-> Get(snap, "pcr", 0),
      pcr_change_1d |-> Get(snap, "pcr_change_1d", 0),
      oi_trend |-> Get(snap, "oi_trend", ""),
      mcap_category |-> Get(snap, "mcap_category", ""),
      sector |-> Get(snap, "sector", ""),
      close |-> Get(snap, "close", 0) ]

\* recommender.py lines 50-98: the rows in dict order
ActionRows(kept, prev_data, sector_rot, conv_map) ==
    [i \in 1..Len(kept) |->
        ActionRow(kept[i],
                  enrich_oi_change_pct(kept[i], Lookup(prev_data, kept[i]["symbol"])),
                  Get(conv_map, kept[i]["symbol"], <<>>),
                  SectorScore(sector_rot, Get(kept[i], "sector", "?")))]

\* a slip: reverse=True taken for an ascending sort read backwards, which
\* turns rows of equal keys around
SortActionRows_reversed_ascending(rows) ==
    [k \in 1..Len(rows) |->
        Items(SortAscPairs([i \in 1..Len(rows) |->
            << <<rows[i].rec_score, rows[i].conviction, rows[i].score>>, rows[i] >>]))[Len(rows) + 1 - k]]

\* recommender.py line 100
SortActionRows(rows) ==
    Items(SortDescPairs([i \in 1..Len(rows) |->
        << <<rows[i].rec_score, rows[i].conviction, rows[i].score>>, rows[i] >>]))

\* recommender.py lines 43-101: the rows, filtered, built and sorted
SheetRows(d, dts, view_date, mcap_filter, min_conv, min_score, watchlist, sweet_spot_only) ==
    SortActionRows(ActionRows(
        SelectSeq(Day(d, view_date),
            LAMBDA x : Kept(x, Lookup(PrevData(d, dts), x["symbol"]), mcap_filter,
                            min_conv, min_score, watchlist, sweet_spot_only)),
        PrevData(d, dts),
        get_sector_bull_delta(d, dts, view_date, mcap_filter),
        signal_convergence(d, dts, view_date)))

get_action_sheet_any_dates(d, dts, view_date, mcap_filter, min_conv, min_score, watchlist, sweet_spot_only) ==
    IF view_date \notin DOMAIN d THEN <<>>
    ELSE SheetRows(d, dts, view_date, mcap_filter, min_conv, min_score, watchlist, sweet_spot_only)

\* recommender.py lines 29-101; watchlist {} stands for None
get_action_sheet(d, dts, view_date, mcap_filter, min_conv, min_score, watchlist, sweet_spot_only) ==
    IF dts = <<>> \/ view_date \notin DOMAIN d THEN <<>>
    ELSE SheetRows(d, dts, view_date, mcap_filter, min_conv, min_score, watchlist, sweet_spot_only)

\* recommender.py lines 11-26, for top_n >= 0
get_top_picks(d, dts, view_date, mcap_filter, top_n) ==
    Take(get_action_sheet(d, dts, view_date, mcap_filter, 0, 0, {}, TRUE), top_n)

\* recommender.py lines 131-138: the dates the loop evaluates, each with the
\* picks chosen for it
HistoricalPicks(d, dts, lookback_days) ==
    [j \in 1..lookback_days |->
        [ date |-> dts[Len(dts) - lookback_days - 1 + j],
          next_date |-> dts[Len(dts) - lookback_days + j],
          picks |-> get_top_picks(d, SubSeq(dts, 1, Len(dts) - lookback_days + j),
                                  dts[Len(dts) - lookback_days - 1 + j], "All", 7) ]]

\* recommender.py lines 141-149: the pick is measured
Measured(p, next_day) ==
    /\ p.close > 0
    /\ HasSym(next_day, p.symbol)
    /\ Get(SnapOf(next_day, p.symbol), "close", 0) > 0

\* recommender.py lines 150-155: round(pct, 2) in hundredths of a percent; the
\* closes of the input family make every percentage a whole number of them
PickDetail(dt, p, next_day) ==
    [ date |-> dt,
      symbol |-> p.symbol,
      pnl_pct |-> RoundDiv((Get(SnapOf(next_day, p.symbol), "close", 0) - p.close) * 10000,
                           p.close) ]

DetailsOfDate(dt, measured, next_day) ==
    [i \in 1..Len(measured) |-> PickDetail(dt, measured[i], next_day)]

\* the details of all evaluated dates, in loop order
RECURSIVE DetailsOf(_, _)
DetailsOf(d, hist) ==
    IF hist = <<>> THEN <<>>
    ELSE DetailsOf(d, SubSeq(hist, 1, Len(hist) - 1))
         \o DetailsOfDate(hist[Len(hist)].date,
                SelectSeq(hist[Len(hist)].picks,
                          LAMBDA p : Measured(p, Day(d, hist[Len(hist)].next_date))),
                Day(d, hist[Len(hist)].next_date))

\* recommender.py lines 157-165; [none |-> TRUE] stands for None
Performance(details) ==
    IF details = <<>> THEN [none |-> TRUE]
    ELSE [ total_picks |-> Len(details),
           green_count |-> Cardinality({i \in 1..Len(details) : details[i].pnl_pct > 0}),
           green_pct |-> RoundDiv(
               Cardinality({i \in 1..Len(details) : details[i].pnl_pct > 0}) * 100,
               Len(details)),
           avg_chg_pct |-> RoundDiv(
               SumOver([i \in 1..Len(details) |-> details[i].pnl_pct], 1..Len(details)),
               Len(details)),
           details |-> Take(details, 10) ]

\* recommender.py lines 118-165, for lookback_days >= 1
get_historical_top7_performance(d, dts, lookback_days) ==
    IF Len(dts) < lookback_days + 1 THEN [none |-> TRUE]
    ELSE Performance(DetailsOf(d, HistoricalPicks(d, dts, lookback_days)))

--------------------------------------------------------------------------
(* What the signal functions leave of their inputs, and daily_summary.      *)

\* a slip: the computed changes written into the caller's snapshot
StockAfterEnrich_in_place(stock, prev_stock) == enrich_oi_change_pct(stock, prev_stock)

\* signals.py lines 75-85: the snapshot handed to enrich_oi_change_pct after
\* the call; s = dict(stock) takes a copy and every write goes to the copy
StockAfterEnrich(stock, prev_stock) == stock

\* signals.py lines 183-185: data[dates[-1]] after the loop of sector_rotation
\* has enriched the filtered stocks of the latest date
DataAfterRotation(d, dts, mcap_filter) ==
    IF Len(dts) < 2 \/ dts[Len(dts)] \notin DOMAIN d THEN d
    ELSE [d EXCEPT ![dts[Len(dts)]] =
             [i \in 1..Len(@) |->
                 IF mcap_filter = "All" \/ Get(@[i], "mcap_category", "") = mcap_filter
                 THEN StockAfterEnrich(@[i], Lookup(PrevData(d, dts), @[i]["symbol"]))
                 ELSE @[i]]]

\* recommender.py lines 45-60: data after get_action_sheet has called
\* sector_rotation and enriched the stocks of the view date that pass the
\* market-cap filter and the liquidity guard
DataAfterSheet(d, dts, view_date, mcap_filter) ==
    IF dts = <<>> \/ view_date \notin DOMAIN d THEN d
    ELSE [DataAfterRotation(d, dts, mcap_filter) EXCEPT ![view_date] =
             [i \in 1..Len(@) |->
                 IF /\ mcap_filter = "All" \/ Get(@[i], "mcap_category", "") = mcap_filter
                    /\ ~(Get(@[i], "volume_times", 0) < 70 /\ Get(@[i], "pcr", 100) >= 100)
                 THEN StockAfterEnrich(@[i], Lookup(PrevData(d, dts), @[i]["symbol"]))
                 ELSE @[i]]]

\* the number of snapshots of a day whose oi_trend is one of trends
TrendCount(day, trends) ==
    Cardinality({i \in 1..Len(day) : Get(day[i], "oi_trend", "") \in trends})

\* signals.py lines 391-447: the paragraph, kept as the values its sentences
\* are formatted from; text is the whole result when there is nothing to say
daily_summary(d, dts) ==
    IF dts = <<>> THEN [text |-> "No data available."]
    ELSE IF Day(d, dts[Len(dts)]) = <<>> THEN [text |-> "No stock data for today."]
    ELSE [ today |-> dts[Len(dts)],
           total |-> Len(Day(d, dts[Len(dts)])),
           n_bull |-> TrendCount(Day(d, dts[Len(dts)]), BULLISH),
           n_bear |-> TrendCount(Day(d, dts[Len(dts)]), BEARISH_TRENDS),
           yest_bull |-> TrendCount(PrevData(d, dts), BULLISH),
           yest_total |-> Len(PrevData(d, dts)),
           pcr_sum |-> SumOver([i \in 1..Len(Day(d, dts[Len(dts)])) |->
                                   Get(Day(d, dts[Len(dts)])[i], "pcr", 0)],
                               1..Len(Day(d, dts[Len(dts)]))),
           chg_sum |-> SumOver([i \in 1..Len(Day(d, dts[Len(dts)])) |->
                                   Get(Day(d, dts[Len(dts)])[i], "change_pct", 0)],
                               1..Len(Day(d, dts[Len(dts)]))),
           flips |-> [i \in 1..Len(detect_trend_flips(d, dts)) |->
                         detect_trend_flips(d, dts)[i].symbol],
           low_pcr |-> Len(pcr_extremes(d, dts[Len(dts)], 50, 150).low_pcr),
           spikes |-> Len(delivery_spikes(d, dts[Len(dts)], 200)),
           streaks |-> Len(score_streaks(d, dts, 3, 20, 34)) ]

--------------------------------------------------------------------------
(* src/core/loader.py: DataCache.  cache.data is the variable data,         *)
(* cache.dates the variable dates, and cache.ohlc the variable ohlc: a      *)
(* function symbol -> date -> bar, a bar carrying its open.  A result None  *)
(* is <<>>, a result (entry, exit) the pair <<entry, exit>>.                *)

MAX_GAP == 20

Abs(x) == IF x < 0 THEN 0 - x ELSE x

\* self.ohlc.get(symbol, {}).get(date): the bar, or None
BarOf(oh, symbol, date) ==
    IF symbol \in DOMAIN oh /\ date \in DOMAIN oh[symbol] THEN oh[symbol][date]
    ELSE [none |-> TRUE]

EntryPrice_strict_gap(bar, entry_close) ==
    IF /\ "open" \in DOMAIN bar
       /\ bar["open"] > 0
       /\ Abs(bar["open"] - entry_close) * 100 < MAX_GAP * Abs(entry_close)
    THEN bar["open"]
    ELSE entry_close

EntryPrice_any_open(bar, entry_close) ==
    IF "open" \in DOMAIN bar /\ bar["open"] > 0 THEN bar["open"] ELSE entry_close

\* loader.py lines 93-97 and 114-118: the entry price
EntryPrice(bar, entry_close) ==
    IF /\ "open" \in DOMAIN bar
       /\ bar["open"] > 0
       /\ Abs(bar["open"] - entry_close) * 100 <= MAX_GAP * Abs(entry_close)
    THEN bar["open"]
    ELSE entry_close

Resolved_default_hold(entry, exit_c, limit) ==
    IF Abs(exit_c - entry) * 100 > (2 * MAX_GAP) * Abs(entry) THEN <<>> ELSE <<entry, exit_c>>

\* loader.py lines 98-100 and 119-121: abs((exit_c - entry) / entry * 100)
\* against the limit
Resolved(entry, exit_c, limit) ==
    IF Abs(exit_c - entry) * 100 > limit * Abs(entry) THEN <<>> ELSE <<entry, exit_c>>

\* loader.py lines 86-100
exit_price(d, oh, symbol, entry_close, exit_date) ==
    IF \/ ~HasSym(Day(d, exit_date), symbol)
       \/ Get(SnapOf(Day(d, exit_date), symbol), "close", 0) = 0
    THEN <<>>
    ELSE Resolved(EntryPrice(BarOf(oh, symbol, exit_date), entry_close),
                  SnapOf(Day(d, exit_date), symbol)["close"], MAX_GAP)

multi_exit_signal_day_bar(d, oh, dts, symbol, entry_close, idx, hold) ==
    IF idx + hold > Len(dts) THEN <<>>
    ELSE IF \/ ~HasSym(Day(d, dts[idx + hold]), symbol)
            \/ Get(SnapOf(Day(d, dts[idx + hold]), symbol), "close", 0) = 0
    THEN <<>>
    ELSE Resolved(EntryPrice(BarOf(oh, symbol, dts[idx]), entry_close),
                  SnapOf(Day(d, dts[idx + hold]), symbol)["close"], MAX_GAP * hold)

\* loader.py lines 102-121; idx counts the dates from 1
multi_exit(d, oh, dts, symbol, entry_close, idx, hold) ==
    IF idx + hold > Len(dts) THEN <<>>
    ELSE IF \/ ~HasSym(Day(d, dts[idx + hold]), symbol)
            \/ Get(SnapOf(Day(d, dts[idx + hold]), symbol), "close", 0) = 0
    THEN <<>>
    ELSE IF idx + 1 > Len(dts) THEN <<>>
    ELSE Resolved(EntryPrice(BarOf(oh, symbol, dts[idx + 1]), entry_close),
                  SnapOf(Day(d, dts[idx + hold]), symbol)["close"], MAX_GAP * hold)

--------------------------------------------------------------------------
(* src/core/scorer.py: strategies and backtester.  A pick is the triple     *)
(* <<symbol, score, close>>.                                                 *)

\* scorer.py lines 258-259: the snapshot passes the liquidity guard
Liquid(snap) == ~(Get(snap, "volume_times", 0) < 70 /\ Get(snap, "pcr", 100) >= 100)

PickOf(snap) == <<snap["symbol"], base_score(snap), Get(snap, "close", 0)>>

PicksOf(snaps) == [i \in 1..Len(snaps) |-> PickOf(snaps[i])]

\* out.sort(key=lambda x: x[1], reverse=True)
SortByScore(picks) ==
    Items(SortDescPairs([i \in 1..Len(picks) |-> << <<picks[i][2]>>, picks[i] >>]))

\* scorer.py lines 265-267
SortByConvictionScore(snaps) ==
    Items(SortDescPairs([i \in 1..Len(snaps) |->
        << <<outrunner_conviction(snaps[i]).conviction, base_score(snaps[i])>>,
           PickOf(snaps[i]) >>]))

\* scorer.py lines 253-267
strat_outrunner(d, dts, date) ==
    SortByConvictionScore(SelectSeq(Day(d, date),
        LAMBDA x : Liquid(x) /\ 20 <= base_score(x) /\ base_score(x) <= 34))

\* scorer.py lines 270-280
strat_sweet_spot(d, dts, date) ==
    SortByScore(PicksOf(SelectSeq(Day(d, date),
        LAMBDA x : Liquid(x) /\ 20 <= base_score(x) /\ base_score(x) <= 34)))

\* cache.dates.index(date), counted from 1; 0 when the date is not in the list
IndexOf(dts, date) ==
    IF \E i \in 1..Len(dts) : dts[i] = date
    THEN CHOOSE i \in 1..Len(dts) : dts[i] = date /\ \A j \in 1..(i - 1) : dts[j] # date
    ELSE 0

\* {x[0] for x in picks}
PickSymbols(picks) == {picks[i][1] : i \in 1..Len(picks)}

\* scorer.py lines 288-294: the symbols of the ten best scores of the previous date
Top10(prev_day) == PickSymbols(Take(SortByScore(PicksOf(SelectSeq(prev_day, Liquid))), 10))

\* scorer.py lines 295-300
InTop10(day, top10) ==
    SortByScore(PicksOf(SelectSeq(day, LAMBDA x : x["symbol"] \in top10)))

\* scorer.py lines 283-300
strat_multi_day(d, dts, date) ==
    IF IndexOf(dts, date) <= 1 THEN <<>>
    ELSE InTop10(Day(d, date), Top10(Day(d, dts[IndexOf(dts, date) - 1])))

\* scorer.py lines 303-311
strat_baseline(d, dts, date) ==
    SortByScore(PicksOf(SelectSeq(Day(d, date), Liquid)))

\* scorer.py lines 314-319
STRATEGIES == {"Outrunner (Best)", "Score Sweet Spot", "Multi-Day Confirmation",
               "Baseline (Original)"}

\* strat_fn(cache, dt)
Strategy(strat_fn, d, dts, date) ==
    CASE strat_fn = "Outrunner (Best)" -> strat_outrunner(d, dts, date)
      [] strat_fn = "Score Sweet Spot" -> strat_sweet_spot(d, dts, date)
      [] strat_fn = "Multi-Day Confirmation" -> strat_multi_day(d, dts, date)
      [] strat_fn = "Baseline (Original)" -> strat_baseline(d, dts, date)

\* scorer.py lines 334-339: the resolved prices of a pick of dates[i]
ResolvePick(d, oh, dts, i, pick, hold) ==
    IF hold = 1 THEN exit_price(d, oh, pick[1], pick[3], dts[i + 1])
    ELSE multi_exit(d, oh, dts, pick[1], pick[3], i, hold)

TradeRecord_exit_next_date(dt, edt, pick, ent, ext, capital) ==
    [ date |-> dt,
      exit_date |-> dt + 1,
      symbol |-> pick[1],
      score |-> pick[2],
      entry |-> ent,
      exit |-> ext,
      pnl |-> RoundDiv((ext - ent) * capital * 100, ent),
      pnl_pct |-> RoundDiv((ext - ent) * 10000, ent) ]

\* scorer.py lines 341-348: money in hundredths, percentages in hundredths of
\* a percent; capital is in whole units
TradeRecord(dt, edt, pick, ent, ext, capital) ==
    [ date |-> dt,
      exit_date |-> edt,
      symbol |-> pick[1],
      score |-> pick[2],
      entry |-> ent,
      exit |-> ext,
      pnl |-> RoundDiv((ext - ent) * capital * 100, ent),
      pnl_pct |-> RoundDiv((ext - ent) * 10000, ent) ]

TradeOfResolved_records_none(dts, i, pick, hold, capital, r) ==
    IF r = <<>> THEN <<TradeRecord(dts[i], dts[i + hold], pick, pick[3], pick[3], capital)>>
    ELSE <<TradeRecord(dts[i], dts[i + hold], pick, r[1], r[2], capital)>>

\* scorer.py lines 333-348: the trades of one pick, none or one
TradeOfResolved(dts, i, pick, hold, capital, r) ==
    IF r = <<>> THEN <<>>
    ELSE <<TradeRecord(dts[i], dts[i + hold], pick, r[1], r[2], capital)>>

TradeOfPick(d, oh, dts, i, pick, hold, capital) ==
    IF pick[3] <= 0 THEN <<>>
    ELSE TradeOfResolved(dts, i, pick, hold, capital, ResolvePick(d, oh, dts, i, pick, hold))

\* scorer.py lines 332-349: the trades of the picks of one date, in pick order
RECURSIVE TradesOfPicks(_, _, _, _, _, _, _)
TradesOfPicks(d, oh, dts, i, picks, hold, capital) ==
    IF picks = <<>> THEN <<>>
    ELSE TradesOfPicks(d, oh, dts, i, SubSeq(picks, 1, Len(picks) - 1), hold, capital)
         \o TradeOfPick(d, oh, dts, i, picks[Len(picks)], hold, capital)

\* scorer.py lines 329-349: the trades of the dates 1..n, in date order
RECURSIVE TradesUpTo(_, _, _, _, _, _, _, _)
TradesUpTo(d, oh, dts, strat_fn, top_n, hold, capital, n) ==
    IF n = 0 THEN <<>>
    ELSE TradesUpTo(d, oh, dts, strat_fn, top_n, hold, capital, n - 1)
         \o TradesOfPicks(d, oh, dts, n, Take(Strategy(strat_fn, d, dts, dts[n]), top_n),
                          hold, capital)

\* the sum of a field over a list of trades
SumField(trades, key) == SumOver([i \in 1..Len(trades) |-> trades[i][key]], 1..Len(trades))

\* scorer.py line 350: the equity point of each visited date; the closes of the
\* input family make every pnl a whole number of hundredths
Equity(dts, trades, visited) ==
    [k \in 1..visited |->
        [ date |-> dts[k],
          equity |-> SumField(SelectSeq(trades, LAMBDA t : IndexOf(dts, t.date) <= k), "pnl") ]]

MaxDrawdown_recorded_peak(equity, k, peak, mx_dd) ==
    IF equity = <<>> THEN mx_dd
    ELSE LET top(n) == CHOOSE x \in {equity[j].equity : j \in 1..n} :
                           \A j \in 1..n : equity[j].equity <= x
             drops == {top(n) - equity[n].equity : n \in 1..Len(equity)}
         IN  CHOOSE x \in drops : \A y \in drops : y <= x

\* scorer.py lines 361-365
RECURSIVE MaxDrawdown(_, _, _, _)
MaxDrawdown(equity, k, peak, mx_dd) ==
    IF k > Len(equity) THEN mx_dd
    ELSE IF equity[k].equity > peak
    THEN MaxDrawdown(equity, k + 1, equity[k].equity, mx_dd)
    ELSE IF peak - equity[k].equity > mx_dd
    THEN MaxDrawdown(equity, k + 1, peak, peak - equity[k].equity)
    ELSE MaxDrawdown(equity, k + 1, peak, mx_dd)

\* x if cond else 0, for a quotient
RatioOr0(num, den) == IF den = 0 THEN 0 ELSE RoundDiv(num, den)

\* t["date"][:7], the month of a date: the dates 1 and 2 lie in month 1, the
\* dates 3 and 4 in month 2, and so on
MonthOf(date) == (date + 1) \div 2

\* the trades entered in month m
TradesOfMonth(trades, m) == SelectSeq(trades, LAMBDA t : MonthOf(t.date) = m)

\* scorer.py lines 367-371: one entry of the monthly table
MonthRow(month_trades) ==
    [ pnl |-> SumField(month_trades, "pnl"),
      trades |-> Len(month_trades),
      wins |-> Len(SelectSeq(month_trades, LAMBDA t : t.pnl > 0)) ]

\* scorer.py lines 367-371 and 384: dict(monthly)
Monthly(trades) ==
    [ m \in {MonthOf(trades[i].date) : i \in 1..Len(trades)} |->
        MonthRow(TradesOfMonth(trades, m)) ]

\* scorer.py lines 352-385
BacktestResult(trades, equity, wins, losses, capital) ==
    IF trades = <<>>
    THEN [ trades |-> <<>>, total_trades |-> 0, total_pnl |-> 0, return_pct |-> 0,
           win_rate |-> 0, profit_factor |-> 0, equity |-> equity,
           avg_win_pct |-> 0, avg_loss_pct |-> 0, max_dd |-> 0, monthly |-> <<>> ]
    ELSE [ trades |-> trades,
           monthly |-> Monthly(trades),
           equity |-> equity,
           total_trades |-> Len(trades),
           total_pnl |-> SumField(trades, "pnl"),
           total_invested |-> Len(trades) * capital * 100,
           return_pct |-> RatioOr0(SumField(trades, "pnl") * 100, Len(trades) * capital),
           win_rate |-> RoundDiv(Len(wins) * 1000, Len(trades)),
           profit_factor |-> RatioOr0(SumField(wins, "pnl") * 100,
                                      Abs(SumField(losses, "pnl"))),
           avg_win_pct |-> RatioOr0(SumField(wins, "pnl_pct"), Len(wins)),
           avg_loss_pct |-> RatioOr0(SumField(losses, "pnl_pct"), Len(losses)),
           max_dd |-> MaxDrawdown(equity, 1, 0, 0) ]

\* the dates the loop of scorer.py lines 329-330 visits
Visited(dts, hold) == IF Len(dts) - hold > 0 THEN Len(dts) - hold ELSE 0

ResultOf(dts, trades, hold, capital) ==
    BacktestResult(trades, Equity(dts, trades, Visited(dts, hold)),
                   SelectSeq(trades, LAMBDA t : t.pnl > 0),
                   SelectSeq(trades, LAMBDA t : t.pnl <= 0), capital)

\* scorer.py line 331: the picks of every visited date
RunPicks(d, dts, strat_fn, top_n, hold) ==
    [i \in 1..Visited(dts, hold) |-> Take(Strategy(strat_fn, d, dts, dts[i]), top_n)]

\* scorer.py lines 324-385
run_backtest(d, oh, dts, strat_fn, top_n, hold, capital) ==
    ResultOf(dts, TradesUpTo(d, oh, dts, strat_fn, top_n, hold, capital, Visited(dts, hold)),
             hold, capital)

--------------------------------------------------------------------------
(* The scoring specification: one snapshot, edited field by field, and the *)
(* three scoring functions applied to it.                                  *)

\* how many fields of a snapshot may differ from a base snapshot
MaxEdits == 1

\* the snapshot of the documentation's example scenario (score 45, conviction 19)
ScenarioA ==
    [ symbol |-> "X", oi_trend |-> "ShortCover", pcr |-> 60, pcr_change_1d |-> -15,
      oi_change_pct |-> 1200, volume_times |-> 220, delivery_times |-> 210,
      change_pct |-> 350, mcap_category |-> "Mid Cap" ]

\* a snapshot with no scoring field at all
Bare == [ symbol |-> "X" ]

\* every field just past a threshold: one edit moves it onto or across it
Borderline ==
    [ symbol |-> "X", oi_trend |-> "NewLong", pcr |-> 99, pcr_change_1d |-> -1,
      oi_change_pct |-> 501, volume_times |-> 101, delivery_times |-> 101,
      change_pct |-> 1, mcap_category |-> "Large Cap" ]

\* every factor at its worst
Bearish ==
    [ symbol |-> "X", oi_trend |-> "NewShort", pcr |-> 121, pcr_change_1d |-> 11,
      oi_change_pct |-> -500, volume_times |-> 70, delivery_times |-> 70,
      change_pct |-> -300, mcap_category |-> "Small Cap" ]

BaseSnapshots == {Bare, ScenarioA, Borderline, Bearish}

\* for each field, values on each threshold of the source and on both sides of it
FieldValues ==
    [ oi_trend |-> {"NewLong", "NewShort", "ShortCover", "LongCover", "Neutral", "Sideways"},
      mcap_category |-> {"Mid Cap", "Large Cap", "Small Cap", "Micro Cap"},
      pcr |-> {0, 69, 70, 89, 90, 91, 100, 101, 120, 121},
      pcr_change_1d |-> {-11, -10, -1, 0, 10, 11},
      oi_change_pct |-> {-501, -500, -499, 0, 1, 200, 201, 499, 500, 501, 1000, 1001},
      volume_times |-> {0, 70, 71, 99, 100, 101, 120, 121, 149, 150, 151, 199, 200, 201},
      delivery_times |-> {0, 70, 71, 99, 100, 101, 120, 121, 149, 150, 151, 199, 200, 201},
      change_pct |-> {-301, -300, -299, -101, -100, -99, -1, 0, 1, 99, 100, 101, 299, 300, 301} ]

ScoreFields == DOMAIN FieldValues

\* every snapshot one field assignment or deletion away from a snapshot of S
OneEdit(S) ==
    UNION { {Put(x, f, v) : v \in FieldValues[f]} \cup {Del(x, f)} :
            x \in S, f \in ScoreFields }

RECURSIVE Edited(_, _)
Edited(S, k) == IF k = 0 THEN S ELSE Edited(S \cup OneEdit(S), k - 1)

\* the snapshots that differ from a base snapshot in at most MaxEdits fields
Snapshots == Edited(BaseSnapshots, MaxEdits)

InitScore ==
    /\ s \in Snapshots
    /\ data = <<>>
    /\ ohlc = <<>>
    /\ dates = <<>>
    /\ ret = NoCall

CallBaseScore ==
    /\ ret = NoCall
    /\ ret' = [op |-> "base_score", val |-> base_score(s)]
    /\ UNCHANGED <<s, data, ohlc, dates>>

CallScoreBreakdown ==
    /\ ret = NoCall
    /\ ret' = [op |-> "score_breakdown", val |-> score_breakdown(s)]
    /\ UNCHANGED <<s, data, ohlc, dates>>

CallOutrunnerConviction ==
    /\ ret = NoCall
    /\ ret' = [op |-> "outrunner_conviction", val |-> outrunner_conviction(s)]
    /\ UNCHANGED <<s, data, ohlc, dates>>

\* the caller takes the result; the next call may start (the program is
\* single-threaded and synchronous)
Return ==
    /\ ret # NoCall
    /\ ret' = NoCall
    /\ UNCHANGED <<s, data, ohlc, dates>>

NextScore ==
    \/ Return
    \/ CallBaseScore
    \/ CallScoreBreakdown
    \/ CallOutrunnerConviction

SpecScore == InitScore /\ [][NextScore]_vars

--------------------------------------------------------------------------
(* The market data of the detector specifications: NumDates dates, two      *)
(* symbols, and for each symbol and date one of a few snapshots or none.    *)

\* the number of dates in the date list
NumDates == 3

AllDates == [i \in 1..NumDates |-> i]

\* dates[:n]
DatesUpTo(n) == SubSeq(AllDates, 1, n)

Mk(sym, trend, pcr, pcr_chg, oi, vol, dlv, chg, mcap, sector, close, call_oi, put_oi) ==
    [ symbol |-> sym, oi_trend |-> trend, pcr |-> pcr, pcr_change_1d |-> pcr_chg,
      oi_change_pct |-> oi, volume_times |-> vol, delivery_times |-> dlv,
      change_pct |-> chg, mcap_category |-> mcap, sector |-> sector, close |-> close,
      cumulative_call_oi |-> call_oi, cumulative_put_oi |-> put_oi ]

\* a missing snapshot (data[date].get(sym) is None)
None == [none |-> TRUE]

\* symbol A: bearish in the sweet spot (29), bullish on its lower edge (20),
\* neutral on its upper edge (34)
A_S29 == Mk("A", "NewShort", 60, -15, 1100, 210, 210, 350, "Mid Cap", "IT", 10000, 1000, 1000)
A_L20 == Mk("A", "NewLong", 95, 0, 100, 130, 110, 150, "Mid Cap", "IT", 10000, 1100, 900)
A_N34 == Mk("A", "Neutral", 60, -15, 1100, 160, 160, 350, "Mid Cap", "IT", 12500, 1000, 1000)

\* symbol A, bullish just above the sweet spot (35)
A_C35 == Mk("A", "ShortCover", 60, -15, 600, 210, 130, 150, "Mid Cap", "IT", 12500, 1100, 900)

\* symbol B: bearish in the sweet spot (29), bullish just above it (35),
\* bullish just below it (19)
B_C29 == Mk("B", "LongCover", 60, -15, 1100, 210, 210, 350, "Large Cap", "Bank", 20000, 500, 500)
B_S35 == Mk("B", "ShortCover", 60, -15, 600, 210, 130, 150, "Large Cap", "Bank", 20000, 600, 400)
B_L19 == Mk("B", "NewLong", 95, 0, 0, 130, 110, 150, "Large Cap", "Bank", 25000, 500, 500)

\* the dict of one date, A inserted before B
DayDict(a, b) == (IF a = None THEN <<>> ELSE <<a>>) \o (IF b = None THEN <<>> ELSE <<b>>)

\* every combination of choices for A and B; a date is a date of the list
\* because some document carries it (loader.get_dates), so no day is empty
DaysOf(choicesA, choicesB) == {DayDict(a, b) : a \in choicesA, b \in choicesB} \ {<<>>}

--------------------------------------------------------------------------
(* The trend-flip specification *)

FlipDays == DaysOf({None, A_S29, A_L20, A_N34}, {None, B_C29, B_S35, B_L19})

InitFlips ==
    /\ dates = AllDates
    /\ data \in [1..NumDates -> FlipDays]
    /\ s = Bare
    /\ ohlc = <<>>
    /\ ret = NoCall

\* detect_trend_flips(sig_data, dates[:n])
CallDetectTrendFlips ==
    \E n \in 0..Len(dates) :
        /\ ret = NoCall
        /\ ret' = [op |-> "detect_trend_flips", dates |-> DatesUpTo(n),
                   val |-> detect_trend_flips(data, DatesUpTo(n))]
        /\ UNCHANGED <<s, data, ohlc, dates>>

NextFlips ==
    \/ Return
    \/ CallDetectTrendFlips

SpecFlips == InitFlips /\ [][NextFlips]_vars

--------------------------------------------------------------------------
(* The score-streak specification *)

StreakDaysOf == DaysOf({None, A_L20, A_N34}, {None, B_S35, B_L19})

InitStreaks ==
    /\ dates = AllDates
    /\ data \in [1..NumDates -> StreakDaysOf]
    /\ s = Bare
    /\ ohlc = <<>>
    /\ ret = NoCall

\* the score ranges score_streaks is called with: the default and a wider one
StreakRanges == {<<20, 34>>, <<19, 35>>}

\* score_streaks(sig_data, dates[:n], min_days, lo, hi)
CallScoreStreaks ==
    \E n \in 0..Len(dates), min_days \in 1..Len(dates), r \in StreakRanges :
        /\ ret = NoCall
        /\ ret' = [op |-> "score_streaks", dates |-> DatesUpTo(n), min_days |-> min_days,
                   lo |-> r[1], hi |-> r[2],
                   val |-> score_streaks(data, DatesUpTo(n), min_days, r[1], r[2])]
        /\ UNCHANGED <<s, data, ohlc, dates>>

NextStreaks ==
    \/ Return
    \/ CallScoreStreaks

SpecStreaks == InitStreaks /\ [][NextStreaks]_vars

--------------------------------------------------------------------------
(* The recommender specification: get_top_picks on a prefix of the date     *)
(* list, for its last date or the one before, and the historical            *)
(* performance on the whole list.                                           *)

PickDays == DaysOf({None, A_S29, A_C35}, {None, B_C29, B_L19})

InitPicks ==
    /\ dates = AllDates
    /\ data \in [1..NumDates -> PickDays]
    /\ s = Bare
    /\ ohlc = <<>>
    /\ ret = NoCall

McapFilters == {"All", "Mid Cap"}

TopNs == {1, 7}

Lookbacks == {1, 2}

\* get_top_picks(sig_data, dates[:n], view_date, mcap_filter, top_n)
CallGetTopPicks ==
    \E n \in 0..Len(dates), back \in {0, 1}, mcap_filter \in McapFilters, top_n \in TopNs :
        /\ ret = NoCall
        /\ n - back >= 0
        /\ ret' = [op |-> "get_top_picks", dates |-> DatesUpTo(n), view_date |-> n - back,
                   mcap_filter |-> mcap_filter, top_n |-> top_n,
                   val |-> get_top_picks(data, DatesUpTo(n), n - back, mcap_filter, top_n)]
        /\ UNCHANGED <<s, data, ohlc, dates>>

\* get_historical_top7_performance(sig_data, dates, lookback_days); picks is
\* the value of the local variable of that name for each date of the loop
CallHistoricalPerformance ==
    \E lookback_days \in Lookbacks :
        /\ ret = NoCall
        /\ ret' = [op |-> "get_historical_top7_performance",
                   lookback_days |-> lookback_days,
                   picks |-> IF Len(dates) < lookback_days + 1 THEN <<>>
                             ELSE HistoricalPicks(data, dates, lookback_days),
                   val |-> get_historical_top7_performance(data, dates, lookback_days)]
        /\ UNCHANGED <<s, data, ohlc, dates>>

NextPicks ==
    \/ Return
    \/ CallGetTopPicks
    \/ CallHistoricalPerformance

SpecPicks == InitPicks /\ [][NextPicks]_vars

--------------------------------------------------------------------------
(* The backtest specification: a cache of up to NumDates dates.  Symbol A   *)
(* varies from date to date in its snapshot and in its OHLC bar; symbol B   *)
(* is steady, so that a run has picks left when a pick of A is dropped.     *)
(* Prices are in hundredths.  The closes 80, 100 and 125 and the capital    *)
(* make every quotient of the run exact in binary floating point as in      *)
(* decimal, and no gap lies within a rounding error of its limit.           *)

\* the scoring fields of A_S29 (score 29, liquid) with another close
A_Close(close) ==
    Mk("A", "NewShort", 60, -15, 1100, 210, 210, 350, "Mid Cap", "IT", close, 1000, 1000)

\* the scoring fields of A_C35 (score 35, liquid)
A_Above == Mk("A", "ShortCover", 60, -15, 600, 210, 130, 150, "Mid Cap", "IT", 12500, 1100, 900)

\* symbol A, score 29, failing the liquidity guard (volume 0.6, pcr 1.2)
A_Thin == Mk("A", "NewLong", 120, -15, 1100, 60, 210, 350, "Mid Cap", "IT", 10000, 1000, 1000)

\* a bar of the OHLC store; only its open is read
Bar(open) == [open |-> open]

\* what one date holds for symbol A: its snapshot and its bar, either may be
\* missing; a bar stored without an open has open 0 (loader.py line 78)
BacktestDays ==
    { [snap |-> None, bar |-> None],
      [snap |-> A_Close(10000), bar |-> Bar(10000)],
      [snap |-> A_Close(10000), bar |-> Bar(12500)],
      [snap |-> A_Close(10000), bar |-> None],
      [snap |-> A_Close(10000), bar |-> Bar(0)],
      [snap |-> A_Close(12500), bar |-> Bar(10000)],
      [snap |-> A_Close(8000), bar |-> Bar(10000)],
      [snap |-> A_Close(0), bar |-> Bar(10000)],
      [snap |-> A_Above, bar |-> Bar(12500)],
      [snap |-> A_Thin, bar |-> Bar(10000)] }

\* cache.data of the chosen days: A before B on every date
DataOf(days) == [i \in 1..Len(days) |-> DayDict(days[i].snap, B_C29)]

\* cache.ohlc of the chosen days: symbol -> date -> bar
OhlcOf(days) ==
    [sym \in {"A", "B"} |->
        IF sym = "B" THEN [i \in 1..Len(days) |-> Bar(20000)]
        ELSE [i \in {k \in 1..Len(days) : days[k].bar # None} |-> days[i].bar]]

InitBacktest ==
    \E n \in 0..NumDates :
        \E days \in [1..n -> BacktestDays] :
            /\ dates = DatesUpTo(n)
            /\ data = DataOf(days)
            /\ ohlc = OhlcOf(days)
            /\ s = Bare
            /\ ret = NoCall

\* the choices of src/pages/2_Backtest.py lines 23-25 that the dates allow
BacktestTopNs == {1, 2}

BacktestHolds == {1, 2}

Capitals == {1000}

\* pages/2_Backtest.py lines 39-40: scorer.run_backtest(cache, fn, ...); ret
\* also keeps the picks the run took on each date it visited
CallRunBacktest ==
    /\ ret = NoCall
    /\ \E strat_fn \in STRATEGIES, top_n \in BacktestTopNs, hold \in BacktestHolds,
          capital \in Capitals :
          ret' = [ op |-> "run_backtest", strat_fn |-> strat_fn, top_n |-> top_n,
                   hold |-> hold, capital |-> capital,
                   picks |-> RunPicks(data, dates, strat_fn, top_n, hold),
                   val |-> run_backtest(data, ohlc, dates, strat_fn, top_n, hold, capital) ]
    /\ UNCHANGED <<s, data, ohlc, dates>>

NextBacktest ==
    \/ Return
    \/ CallRunBacktest

SpecBacktest == InitBacktest /\ [][NextBacktest]_vars

--------------------------------------------------------------------------
(* The enrichment specification: today's snapshot of a symbol is s, the     *)
(* snapshot of the previous date (or None) is data[1].  The cumulative open *)
(* interest of a snapshot is whatever number the imported row carried       *)
(* (importer.py lines 62-63 take any float), or is absent.                  *)

OiValues == {-500, 0, 500, 1000}

\* the snapshots of symbol A over the open-interest values, a field may be absent
OiSnapshots ==
    { [symbol |-> "A", cumulative_call_oi |-> c, cumulative_put_oi |-> p] :
        c \in OiValues, p \in OiValues }
    \cup { [symbol |-> "A", cumulative_call_oi |-> c] : c \in OiValues }
    \cup { [symbol |-> "A", cumulative_put_oi |-> p] : p \in OiValues }
    \cup { [symbol |-> "A"] }

InitEnrich ==
    /\ s \in OiSnapshots
    /\ data \in {<<p>> : p \in OiSnapshots \cup {None}}
    /\ ohlc = <<>>
    /\ dates = <<>>
    /\ ret = NoCall

OiFields == {"cumulative_call_oi", "cumulative_put_oi"}

\* signals.py lines 81-82: _pct_chg(curr, prev), called with the numbers of
\* lines 77-80
CallPctChg ==
    /\ ret = NoCall
    /\ "symbol" \in DOMAIN data[1]
    /\ \E f \in OiFields :
          ret' = [ op |-> "_pct_chg", curr |-> Get(s, f, 0), prev |-> Get(data[1], f, 0),
                   val |-> PctChg(Get(s, f, 0), Get(data[1], f, 0)) ]
    /\ UNCHANGED <<s, data, ohlc, dates>>

\* signals.py lines 73-86
CallEnrichOiChangePct ==
    /\ ret = NoCall
    /\ ret' = [op |-> "enrich_oi_change_pct", val |-> enrich_oi_change_pct(s, data[1])]
    /\ UNCHANGED <<s, data, ohlc, dates>>

NextEnrich ==
    \/ Return
    \/ CallPctChg
    \/ CallEnrichOiChangePct

SpecEnrich == InitEnrich /\ [][NextEnrich]_vars

--------------------------------------------------------------------------
(* The detector specification: the four detectors of the dashboard called   *)
(* on every prefix of the date list, the empty one included.                *)

DetectorDays == DaysOf({None, A_S29}, {None, B_C29, B_L19})

InitDetectors ==
    /\ dates = AllDates
    /\ data \in [1..NumDates -> DetectorDays]
    /\ s = Bare
    /\ ohlc = <<>>
    /\ ret = NoCall

\* the windows of app.py line 142 that the dates tell apart, and one between
Windows == {0, 2, 3}

\* app.py line 211: sector_rotation(sig_data, dates[:n], window, mcap_filter)
CallSectorRotation ==
    \E n \in 0..Len(dates), window \in Windows, mcap_filter \in McapFilters :
        /\ ret = NoCall
        /\ ret' = [op |-> "sector_rotation", dates |-> DatesUpTo(n), window |-> window,
                   mcap_filter |-> mcap_filter,
                   val |-> sector_rotation(data, DatesUpTo(n), window, mcap_filter)]
        /\ UNCHANGED <<s, data, ohlc, dates>>

\* pages/3_Stock_Action_Sheet.py lines 47-53: get_action_sheet(sig_data,
\* dates[:n], view_date, mcap_filter, 0, 0, None); the view date 0 is a date
\* without data
CallGetActionSheet ==
    \E n \in 0..Len(dates), view_date \in 0..Len(dates), mcap_filter \in McapFilters :
        /\ ret = NoCall
        /\ ret' = [op |-> "get_action_sheet", dates |-> DatesUpTo(n), view_date |-> view_date,
                   mcap_filter |-> mcap_filter,
                   val |-> get_action_sheet(data, DatesUpTo(n), view_date, mcap_filter,
                                            0, 0, {}, FALSE)]
        /\ UNCHANGED <<s, data, ohlc, dates>>

NextDetectors ==
    \/ Return
    \/ CallDetectTrendFlips
    \/ CallScoreStreaks
    \/ CallSectorRotation
    \/ CallGetActionSheet

SpecDetectors == InitDetectors /\ [][NextDetectors]_vars

--------------------------------------------------------------------------
(* The sector-rotation specification: sector_rotation on every prefix of    *)
(* the date list.  Symbol A makes the sector IT and symbol B the sector     *)
(* Bank, so a sector comes and goes with its symbol.                        *)

RotationDays == DaysOf({None, A_S29, A_L20}, {None, B_C29, B_L19})

InitRotation ==
    /\ dates = AllDates
    /\ data \in [1..NumDates -> RotationDays]
    /\ s = Bare
    /\ ohlc = <<>>
    /\ ret = NoCall

NextRotation ==
    \/ Return
    \/ CallSectorRotation

SpecRotation == InitRotation /\ [][NextRotation]_vars

--------------------------------------------------------------------------
(* The action-sheet specification: get_action_sheet on every prefix of the  *)
(* date list and every view date.  Symbols A and B are of one sector, B a   *)
(* twin of A's strong snapshot, and a day's dict holds them in either       *)
(* order.                                                                   *)

\* symbol A on a weak day: delivery and volume 0.4x, change -2.7%
A_Down == Mk("A", "NewLong", 60, 0, -300, 40, 40, -270, "Mid Cap", "IT", 10000, 1200, 1000)

\* symbol B with the numbers of A_S29, in A's sector
B_Twin == Mk("B", "NewShort", 60, -15, 1100, 210, 210, 350, "Mid Cap", "IT", 10000, 1000, 1000)

\* the dict of one date, B inserted before A
DayDictRev(a, b) == (IF b = None THEN <<>> ELSE <<b>>) \o (IF a = None THEN <<>> ELSE <<a>>)

SheetDays ==
    DaysOf({None, A_S29, A_Down}, {None, B_Twin}) \cup {DayDictRev(A_S29, B_Twin)}

InitSheet ==
    /\ dates = AllDates
    /\ data \in [1..NumDates -> SheetDays]
    /\ s = Bare
    /\ ohlc = <<>>
    /\ ret = NoCall

NextSheet ==
    \/ Return
    \/ CallGetActionSheet

SpecSheet == InitSheet /\ [][NextSheet]_vars

--------------------------------------------------------------------------
(* The reload specification: one DataCache object loaded again and again    *)
(* while the database grows.  s is the database here: s.days[k] is what the *)
(* main collection and the OHLC store hold for date k, s.imported the       *)
(* number of dates imported so far.  data is cache.data, a function from    *)
(* the dates it has an entry for; ret is the position of load.              *)

\* what the database holds for one date: symbol A with or without a bar, or
\* symbol B alone
ReloadDays ==
    { [snap |-> A_Close(10000), bar |-> Bar(10000)],
      [snap |-> A_Close(12500), bar |-> None],
      [snap |-> None, bar |-> None] }

\* the choices of `days` the dates tell apart (pages/2_Backtest.py line 22)
LoadDays == {1, 2}

\* loader.py lines 13-20: the last `limit` dates, ascending
get_dates(imported, limit) ==
    IF limit < imported THEN [i \in 1..limit |-> imported - limit + i]
    ELSE [i \in 1..imported |-> i]

\* the range of a sequence
Range(seq) == {seq[i] : i \in 1..Len(seq)}

\* loader.py line 71: the documents find() yields for the dates, each as
\* <<date, snapshot>>, date by date
RECURSIVE FoundDocs(_, _)
FoundDocs(db, dts) ==
    IF dts = <<>> THEN <<>>
    ELSE [i \in 1..Len(DayDict(db.days[dts[1]].snap, B_C29)) |->
              <<dts[1], DayDict(db.days[dts[1]].snap, B_C29)[i]>>]
         \o FoundDocs(db, SubSeq(dts, 2, Len(dts)))

\* loader.py lines 75-76: the bars find() yields for the symbols and dates,
\* each as <<symbol, date, bar>>, symbol by symbol
FoundBars(db, dts) ==
    SelectSeq([i \in 1..Len(dts) |-> <<"A", dts[i], db.days[dts[i]].bar>>],
              LAMBDA x : x[3] # None)
    \o [i \in 1..Len(dts) |-> <<"B", dts[i], Bar(20000)>>]

\* day[sym] = snap on the dict of one date: in place when the symbol has an
\* entry, at the end otherwise
PutSnap(day, snap) ==
    IF HasSym(day, snap["symbol"])
    THEN [i \in 1..Len(day) |-> IF day[i]["symbol"] = snap["symbol"] THEN snap ELSE day[i]]
    ELSE Append(day, snap)

\* a slip: the entry of the date is started afresh by its first document
InsertDoc_fresh_date(d, doc) == Put(d, doc[1], <<doc[2]>>)

\* loader.py line 73: self.data[m["date"]][m["symbol"]] = m
InsertDoc(d, doc) == Put(d, doc[1], PutSnap(Day(d, doc[1]), doc[2]))

\* loader.py lines 77-82: self.ohlc[sym][doc["date"]] = {...}
InsertBar(o, bar) == Put(o, bar[1], Put(Get(o, bar[1], <<>>), bar[2], bar[3]))

InitReload ==
    /\ s \in [days : [1..NumDates -> ReloadDays], imported : 0..NumDates]
    /\ data = <<>>
    /\ ohlc = <<>>
    /\ dates = <<>>
    /\ ret = NoCall

\* importer.py lines 74-118: import_csv brings the next date into the database
Import ==
    /\ ret = NoCall
    /\ s.imported < NumDates
    /\ s' = [s EXCEPT !.imported = @ + 1]
    /\ UNCHANGED <<data, ohlc, dates, ret>>

\* loader.py lines 68-71: cache.load(days) sets self.dates and opens the
\* cursor on the main collection; ret.again tells a load of a cache that was
\* loaded before, ret.was what the cache held when the load began
LoadDates ==
    \E days \in LoadDays :
        /\ ret = NoCall
        /\ dates' = get_dates(s.imported, days)
        /\ ret' = [ op |-> "load", again |-> (dates # <<>>),
                    was |-> [dates |-> dates, data |-> data, ohlc |-> ohlc],
                    docs |-> FoundDocs(s, get_dates(s.imported, days)),
                    bars |-> FoundBars(s, get_dates(s.imported, days)) ]
        /\ UNCHANGED <<s, data, ohlc>>

\* loader.py lines 71-73: one round of the first loop
LoadDoc ==
    /\ ret.op = "load"
    /\ ret.docs # <<>>
    /\ data' = InsertDoc(data, ret.docs[1])
    /\ ret' = [ret EXCEPT !.docs = Tail(@)]
    /\ UNCHANGED <<s, ohlc, dates>>

\* loader.py lines 75-82: one round of the second loop
LoadBar ==
    /\ ret.op = "load"
    /\ ret.docs = <<>>
    /\ ret.bars # <<>>
    /\ ohlc' = InsertBar(ohlc, ret.bars[1])
    /\ ret' = [ret EXCEPT !.bars = Tail(@)]
    /\ UNCHANGED <<s, data, dates>>

\* load returns
LoadDone ==
    /\ ret.op = "load"
    /\ ret.docs = <<>>
    /\ ret.bars = <<>>
    /\ ret' = NoCall
    /\ UNCHANGED <<s, data, ohlc, dates>>

NextReload ==
    \/ Import
    \/ LoadDates
    \/ LoadDoc
    \/ LoadBar
    \/ LoadDone

SpecReload == InitReload /\ [][NextReload]_vars

--------------------------------------------------------------------------
(* The purity specification: the signal functions and the action sheet      *)
(* called one after another on the same sig_data.  A call leaves in data    *)
(* what the function leaves of its input; ret keeps the arguments, the      *)
(* result, and the inputs as they were when the call began.                 *)

InitPure ==
    /\ dates = AllDates
    /\ data \in [1..NumDates -> DetectorDays]
    /\ s = Bare
    /\ ohlc = <<>>
    /\ ret = NoCall

\* the result of the function op on sig_data d with the date list dates[:n]
\* and the view date v
ResultOfCall(op, d, n, v) ==
    CASE op = "detect_trend_flips" -> detect_trend_flips(d, DatesUpTo(n))
      [] op = "pcr_extremes" -> pcr_extremes(d, v, 50, 150)
      [] op = "delivery_spikes" -> delivery_spikes(d, v, 200)
      [] op = "score_streaks" -> score_streaks(d, DatesUpTo(n), 3, 20, 34)
      [] op = "signal_convergence" -> signal_convergence(d, DatesUpTo(n), v)
      [] op = "daily_summary" -> daily_summary(d, DatesUpTo(n))
      [] op = "sector_rotation" -> sector_rotation(d, DatesUpTo(n), 5, "All")
      [] op = "enrich_oi_change_pct" ->
             [i \in 1..Len(Day(d, v)) |->
                 enrich_oi_change_pct(Day(d, v)[i],
                     Lookup(Day(d, v - 1), Day(d, v)[i]["symbol"]))]
      [] op = "get_action_sheet" -> get_action_sheet(d, DatesUpTo(n), v, "All", 0, 0, {}, FALSE)

\* sig_data after the function op has run
DataAfterCall(op, d, n, v) ==
    CASE op = "sector_rotation" -> DataAfterRotation(d, DatesUpTo(n), "All")
      [] op = "get_action_sheet" -> DataAfterSheet(d, DatesUpTo(n), v, "All")
      [] op = "enrich_oi_change_pct" ->
             IF v \notin DOMAIN d THEN d
             ELSE [d EXCEPT ![v] =
                      [i \in 1..Len(@) |->
                          StockAfterEnrich(@[i], Lookup(Day(d, v - 1), @[i]["symbol"]))]]
      [] OTHER -> d

\* one call of op: app.py lines 190-215 and pages/3_Stock_Action_Sheet.py
\* lines 47-53 call the functions on sig_data, dates[:n] and a view date;
\* enrich_oi_change_pct is called on every stock of the view date
Called(op) ==
    \E n \in 0..Len(dates), v \in 0..Len(dates) :
        /\ ret = NoCall
        /\ ret' = [ op |-> op, n |-> n, view_date |-> v,
                    before |-> [data |-> data, dates |-> dates],
                    val |-> ResultOfCall(op, data, n, v) ]
        /\ data' = DataAfterCall(op, data, n, v)
        /\ UNCHANGED <<s, ohlc, dates>>

PureFlips == Called("detect_trend_flips")

PurePcrExtremes == Called("pcr_extremes")

PureDeliverySpikes == Called("delivery_spikes")

PureStreaks == Called("score_streaks")

PureConvergence == Called("signal_convergence")

PureSummary == Called("daily_summary")

PureRotation == Called("sector_rotation")

PureEnrich == Called("enrich_oi_change_pct")

PureSheet == Called("get_action_sheet")

NextPure ==
    \/ Return
    \/ PureFlips
    \/ PurePcrExtremes
    \/ PureDeliverySpikes
    \/ PureStreaks
    \/ PureConvergence
    \/ PureSummary
    \/ PureRotation
    \/ PureEnrich
    \/ PureSheet

SpecPure == InitPure /\ [][NextPure]_vars

--------------------------------------------------------------------------
(* The equity-curve specification: run_backtest over longer caches of fewer *)
(* day choices, so that a run reaches a gain followed by a loss (with the   *)
(* closes 80, 100 and 125 a gain needs a 2-day hold, and two visited dates  *)
(* of a 2-day hold need four dates).                                        *)

\* how many dates an equity cache may hold
NumEquityDates == 4

\* what one date holds for symbol A
EquityDays ==
    { [snap |-> None, bar |-> None],
      [snap |-> A_Close(10000), bar |-> Bar(10000)],
      [snap |-> A_Close(10000), bar |-> Bar(12500)],
      [snap |-> A_Close(12500), bar |-> Bar(10000)],
      [snap |-> A_Close(8000), bar |-> Bar(10000)] }

InitEquity ==
    \E n \in 0..NumEquityDates :
        \E days \in [1..n -> EquityDays] :
            /\ dates = [i \in 1..n |-> i]
            /\ data = DataOf(days)
            /\ ohlc = OhlcOf(days)
            /\ s = Bare
            /\ ret = NoCall

SpecEquity == InitEquity /\ [][NextBacktest]_vars

--------------------------------------------------------------------------
(* The price-resolver specification: the caches of the backtest, and the    *)
(* two price helpers of DataCache applied to a stock of a signal day as     *)
(* run_backtest applies them (scorer.py lines 332-338: the symbol and the   *)
(* close of a pick, the close above 0).  idx counts the dates from 1.       *)

\* cache.exit_price(sym, cl, cache.dates[i + 1])
CallExitPrice ==
    /\ ret = NoCall
    /\ \E idx \in 1..(Len(dates) - 1) :
          \E j \in 1..Len(data[dates[idx]]) :
              /\ Get(data[dates[idx]][j], "close", 0) > 0
              /\ ret' = [ op |-> "exit_price", idx |-> idx, hold |-> 1,
                          symbol |-> data[dates[idx]][j]["symbol"],
                          entry_close |-> data[dates[idx]][j]["close"],
                          val |-> exit_price(data, ohlc, data[dates[idx]][j]["symbol"],
                                             data[dates[idx]][j]["close"],
                                             dates[idx + 1]) ]
    /\ UNCHANGED <<s, data, ohlc, dates>>

\* cache.multi_exit(sym, cl, i, hold)
CallMultiExit ==
    /\ ret = NoCall
    /\ \E idx \in 1..Len(dates), hold \in BacktestHolds :
          \E j \in 1..Len(data[dates[idx]]) :
              /\ Get(data[dates[idx]][j], "close", 0) > 0
              /\ ret' = [ op |-> "multi_exit", idx |-> idx, hold |-> hold,
                          symbol |-> data[dates[idx]][j]["symbol"],
                          entry_close |-> data[dates[idx]][j]["close"],
                          val |-> multi_exit(data, ohlc, dates,
                                             data[dates[idx]][j]["symbol"],
                                             data[dates[idx]][j]["close"], idx, hold) ]
    /\ UNCHANGED <<s, data, ohlc, dates>>

NextResolve ==
    \/ Return
    \/ CallExitPrice
    \/ CallMultiExit

SpecResolve == InitBacktest /\ [][NextResolve]_vars

--------------------------------------------------------------------------
(* The sector-bonus specification: the action sheet over days on which the  *)
(* composite score of sector IT can fall between 0.3 and its rounding to    *)
(* two decimals.                                                            *)

\* symbol A, score 20: alone in its sector and without a past it gives the
\* sector the composite score 0.004 + 0.15 + 0.15 = 0.304 (delivery 1.01,
\* change 0.8%, OI change 3%)
A_Edge == Mk("A", "NewLong", 60, 0, 300, 100, 101, 80, "Mid Cap", "IT", 10000, 1000, 1000)

BonusDays == DaysOf({None, A_Edge, A_S29}, {None, B_C29})

InitBonus ==
    /\ dates = AllDates
    /\ data \in [1..NumDates -> BonusDays]
    /\ s = Bare
    /\ ohlc = <<>>
    /\ ret = NoCall

SpecBonus == InitBonus /\ [][NextSheet]_vars

--------------------------------------------------------------------------
(* Claims about the scoring functions, checked under SpecScore.           *)

BreakdownFactors ==
    {"OI Trend", "PCR", "OI Change", "Volume", "Delivery", "Momentum", "Bonus"}

\* C1: for every snapshot, the seven values returned by score_breakdown
\* (OI Trend, PCR, OI Change, Volume, Delivery, Momentum, Bonus) add up to
\* base_score of the same snapshot.
C1_ScoreDecomposition ==
    ret.op = "score_breakdown" =>
        /\ DOMAIN ret.val = BreakdownFactors
        /\ SumValues(ret.val) = base_score(s)

\* the breakdown of a snapshot that earns the confluence bonus, 45 in all
C1_Witness ==
    /\ ret.op = "score_breakdown"
    /\ ret.val["Bonus"] = 2
    /\ SumValues(ret.val) = 45

\* The factor table of the documentation, a missing numeric field counting 0.
TableNum(snap, k) == IF k \in DOMAIN snap THEN snap[k] ELSE 0

TableOITrend(snap) ==
    LET t == IF "oi_trend" \in DOMAIN snap THEN snap["oi_trend"] ELSE "" IN
    CASE t \in {"NewLong", "ShortCover"} -> 8
      [] t \in {"NewShort", "LongCover"} -> -8
      [] OTHER -> 0

TablePcrLevel(snap) ==
    LET p == TableNum(snap, "pcr") IN
    CASE p < 70 -> 7
      [] p >= 70 /\ p <= 90 -> 6
      [] p > 90 /\ p <= 100 -> 3
      [] p > 120 -> -3
      [] OTHER -> 0

TablePcrChange(snap) ==
    LET c == TableNum(snap, "pcr_change_1d") IN
    CASE c > 10 -> -3
      [] c < -10 -> 3
      [] c <= 10 /\ c >= -10 /\ c < 0 /\ TableNum(snap, "pcr") < 100 -> 2
      [] OTHER -> 0

TableOIChange(snap) ==
    LET o == TableNum(snap, "oi_change_pct") IN
    CASE o > 1000 -> 8
      [] o > 500 /\ o <= 1000 -> 5
      [] o > 200 /\ o <= 500 -> 3
      [] o > 0 /\ o <= 200 -> 1
      [] o <= -500 -> -3
      [] OTHER -> 0

TableVolume(snap) ==
    LET x == TableNum(snap, "volume_times") IN
    CASE x > 200 -> 5
      [] x > 150 /\ x <= 200 -> 4
      [] x > 120 /\ x <= 150 -> 2
      [] x > 100 /\ x <= 120 -> 1
      [] x <= 70 -> -2
      [] OTHER -> 0

TableDelivery(snap) ==
    LET x == TableNum(snap, "delivery_times") IN
    CASE x > 200 -> 7
      [] x > 150 /\ x <= 200 -> 5
      [] x > 120 /\ x <= 150 -> 3
      [] x > 100 /\ x <= 120 -> 2
      [] x <= 70 -> -2
      [] OTHER -> 0

TableMomentum(snap) ==
    LET c == TableNum(snap, "change_pct") IN
    CASE c > 300 -> 5
      [] c > 100 /\ c <= 300 -> 2
      [] c > -100 /\ c <= 100 -> 0
      [] c > -300 /\ c <= -100 -> -1
      [] OTHER -> -3

TableBonus(snap) ==
    IF /\ TableNum(snap, "pcr") < 100
       /\ TableNum(snap, "volume_times") > 100
       /\ TableNum(snap, "delivery_times") > 100
       /\ TableNum(snap, "change_pct") > 0
    THEN 2 ELSE 0

ConvictionFactors ==
    {"OI Trend", "MCap", "Volume", "Delivery", "Momentum", "PCR Signal", "OI Buildup"}

\* C3: for every snapshot, outrunner_conviction returns a conviction between
\* 0 and 19 that equals the sum of the points of the seven entries of reasons.
C3_ConvictionBound ==
    ret.op = "outrunner_conviction" =>
        /\ ret.val.conviction >= 0
        /\ ret.val.conviction <= 19
        /\ DOMAIN ret.val.reasons = ConvictionFactors
        /\ ret.val.conviction =
               SumValues([k \in ConvictionFactors |-> ret.val.reasons[k][1]])

\* the largest conviction, 19, is returned
C3_Witness ==
    /\ ret.op = "outrunner_conviction"
    /\ ret.val.conviction = 19

--------------------------------------------------------------------------
(* Claims about the detectors *)

Symbols == {"A", "B"}

\* the symbols of a list of result rows
RowSymbols(rows) == {rows[i].symbol : i \in 1..Len(rows)}

\* the data of the given dates alone
OnlyDates(d, keep) == [x \in (DOMAIN d) \cap keep |-> d[x]]

\* C5: with at least two dates, detect_trend_flips contains symbol X exactly
\* when X has a snapshot on dates[-2] and on dates[-1], its oi_trend on dates[-2]
\* is NewShort or LongCover and its oi_trend on dates[-1] is NewLong or
\* ShortCover (so Neutral then NewLong never appears), and the result is the
\* one the last two dates alone give: no earlier date influences it.
C5_FlipExact ==
    (ret.op = "detect_trend_flips" /\ Len(ret.dates) >= 2) =>
        LET n == Len(ret.dates)
            today == Day(data, ret.dates[n])
            yest == Day(data, ret.dates[n - 1])
        IN  /\ \A X \in Symbols :
                X \in RowSymbols(ret.val) <=>
                    /\ HasSym(yest, X)
                    /\ HasSym(today, X)
                    /\ "oi_trend" \in DOMAIN SnapOf(yest, X)
                    /\ SnapOf(yest, X)["oi_trend"] \in {"NewShort", "LongCover"}
                    /\ "oi_trend" \in DOMAIN SnapOf(today, X)
                    /\ SnapOf(today, X)["oi_trend"] \in {"NewLong", "ShortCover"}
            /\ ret.val = detect_trend_flips(
                             OnlyDates(data, {ret.dates[n - 1], ret.dates[n]}),
                             <<ret.dates[n - 1], ret.dates[n]>>)

\* three dates: A was bearish on the first, then goes Neutral -> NewLong and is
\* not reported; B goes LongCover -> ShortCover and is
C5_Witness ==
    /\ ret.op = "detect_trend_flips"
    /\ Len(ret.dates) = 3
    /\ data[1] = <<A_S29>>
    /\ data[2] = <<A_N34, B_C29>>
    /\ data[3] = <<A_L20, B_S35>>
    /\ RowSymbols(ret.val) = {"B"}

\* C6: with at least min_days dates, score_streaks(data, dates, min_days, lo, hi)
\* contains a symbol exactly when the symbol has a snapshot with base_score in
\* [lo, hi] on every one of the last min_days dates of the list, whatever
\* happened on earlier dates.
C6_StreakExact ==
    (ret.op = "score_streaks" /\ Len(ret.dates) >= ret.min_days) =>
        LET n == Len(ret.dates) IN
        \A X \in Symbols :
            X \in RowSymbols(ret.val) <=>
                \A i \in (n - ret.min_days + 1)..n :
                    LET day == Day(data, ret.dates[i]) IN
                    /\ HasSym(day, X)
                    /\ base_score(SnapOf(day, X)) >= ret.lo
                    /\ base_score(SnapOf(day, X)) <= ret.hi

\* min_days = 2 of three dates: A was in the sweet spot on the first two dates
\* and has no snapshot on the last, and is not reported; B misses [20,34] by one
\* on the first date (19), hits [19,35] on the last two (35, 19), and is reported
C6_Witness ==
    /\ ret.op = "score_streaks"
    /\ Len(ret.dates) = 3
    /\ ret.min_days = 2
    /\ ret.lo = 19
    /\ data[1] = <<A_L20>>
    /\ data[2] = <<A_N34, B_S35>>
    /\ data[3] = <<B_L19>>
    /\ RowSymbols(ret.val) = {"B"}

--------------------------------------------------------------------------
(* Claims about the recommender, checked under SpecPicks *)

\* the rows' symbols, in order
SymbolsInOrder(rows) == [i \in 1..Len(rows) |-> rows[i].symbol]

\* C4: no row of get_top_picks belongs to a snapshot of the view date whose
\* base_score is below 20 or above 34, and the result has at most top_n rows.
C4_SweetSpotOnly ==
    (ret.op = "get_top_picks") =>
        /\ Len(ret.val) <= ret.top_n
        /\ \A i \in 1..Len(ret.val) :
               /\ HasSym(Day(data, ret.view_date), ret.val[i].symbol)
               /\ base_score(SnapOf(Day(data, ret.view_date), ret.val[i].symbol)) >= 20
               /\ base_score(SnapOf(Day(data, ret.view_date), ret.val[i].symbol)) <= 34

\* the view date carries A inside the sweet spot (29) and B just below it (19):
\* A is the only pick
C4_Witness ==
    /\ ret.op = "get_top_picks"
    /\ ret.top_n = 7
    /\ ret.mcap_filter = "All"
    /\ ret.view_date = 2
    /\ ret.dates = <<1, 2>>
    /\ data[2] = <<A_S29, B_L19>>
    /\ SymbolsInOrder(ret.val) = <<"A">>

\* C10: get_historical_top7_performance has no lookahead: the picks chosen for
\* an evaluated date dt, their symbols and order, are the same for every data
\* set that agrees with the given one on all dates <= dt.
C10_NoLookahead ==
    (ret.op = "get_historical_top7_performance") =>
        \A j \in 1..Len(ret.picks) :
            \A d2 \in [1..NumDates -> PickDays] :
                (\A x \in 1..ret.picks[j].date : d2[x] = data[x]) =>
                    SymbolsInOrder(HistoricalPicks(d2, dates, ret.lookback_days)[j].picks)
                        = SymbolsInOrder(ret.picks[j].picks)

--------------------------------------------------------------------------
(* Claims about the backtest, checked under SpecBacktest.  They are stated  *)
(* on the call that ret holds: its parameters, its result, and the cache.   *)

\* the indices of the dates on which the run enters trades
EntryDates == {i \in 1..Len(dates) : i + ret.hold <= Len(dates)}

\* the picks the run took on dates[i]
PicksOn(i) == ret.picks[i]

\* the positions in the returned trades of the trades of sym entered on dates[i]
TradesFor(i, sym) ==
    {k \in 1..Len(ret.val.trades) :
        ret.val.trades[k].date = dates[i] /\ ret.val.trades[k].symbol = sym}

\* sym has a snapshot with a close other than 0 on the exit date of dates[i]
HasExit(i, sym) ==
    /\ HasSym(Day(data, dates[i + ret.hold]), sym)
    /\ Get(SnapOf(Day(data, dates[i + ret.hold]), sym), "close", 0) # 0

\* the close of sym on the exit date of dates[i]
ExitClose(i, sym) == SnapOf(Day(data, dates[i + ret.hold]), sym)["close"]

\* the bar of sym on the trading date after dates[i]
NextBar(i, sym) == BarOf(ohlc, sym, dates[i + 1])

\* the prices a and b differ by more than pct percent of a
MovesMoreThan(a, b, pct) == Abs(b - a) * 100 > pct * a

\* the pick was resolved to an entry and an exit that move more than 20% x hold
OverLimit(i, pick) ==
    /\ pick[3] > 0
    /\ HasExit(i, pick[1])
    /\ MovesMoreThan(EntryPrice(NextBar(i, pick[1]), pick[3]), ExitClose(i, pick[1]),
                     20 * ret.hold)

\* C7: after any run_backtest every returned trade has an entry price above 0
\* and |exit - entry| / entry * 100 <= 20 * hold; a pick whose resolved entry
\* and exit prices break that bound has no trade in the list, and total_trades
\* is the length of the list.
C7_GapBound ==
    (ret.op = "run_backtest") =>
        /\ ret.val.total_trades = Len(ret.val.trades)
        /\ \A k \in 1..Len(ret.val.trades) :
               /\ ret.val.trades[k].entry > 0
               /\ ~MovesMoreThan(ret.val.trades[k].entry, ret.val.trades[k].exit,
                                 20 * ret.hold)
        /\ \A i \in EntryDates :
               \A j \in 1..Len(PicksOn(i)) :
                   OverLimit(i, PicksOn(i)[j]) => TradesFor(i, PicksOn(i)[j][1]) = {}

\* a run that dropped a pick for breaking the bound and recorded another trade
C7_Witness ==
    /\ ret.op = "run_backtest"
    /\ ret.val.total_trades >= 1
    /\ \E i \in EntryDates :
           \E j \in 1..Len(PicksOn(i)) :
               /\ OverLimit(i, PicksOn(i)[j])
               /\ TradesFor(i, PicksOn(i)[j][1]) = {}

\* the pick has a close above 0 and the bar of the next trading date opens
\* above 0 and more than 20% away from that close
OpenGapped(i, pick) ==
    /\ pick[3] > 0
    /\ "open" \in DOMAIN NextBar(i, pick[1])
    /\ NextBar(i, pick[1])["open"] > 0
    /\ MovesMoreThan(pick[3], NextBar(i, pick[1])["open"], 20)

\* C8, as stated: with a 1-day hold a pick whose next-trading-day open differs
\* from the signal day's close by more than 20% has no trade in the list,
\* whatever the exit-day close is, and total_trades is the length of the list.
C8_OpenGapExcluded ==
    (ret.op = "run_backtest" /\ ret.hold = 1) =>
        /\ ret.val.total_trades = Len(ret.val.trades)
        /\ \A i \in EntryDates :
               \A j \in 1..Len(PicksOn(i)) :
                   OpenGapped(i, PicksOn(i)[j]) => TradesFor(i, PicksOn(i)[j][1]) = {}

\* the trade of a gapped pick: present exactly when the exit-day snapshot has
\* a close other than 0 that is within 20% of the signal day's close, and then
\* entered at the signal day's close and left at the exit-day close
GapFallsBack(i, pick) ==
    /\ (TradesFor(i, pick[1]) # {}) <=>
           (HasExit(i, pick[1]) /\ ~MovesMoreThan(pick[3], ExitClose(i, pick[1]), 20))
    /\ \A k \in TradesFor(i, pick[1]) :
           /\ ret.val.trades[k].entry = pick[3]
           /\ ret.val.trades[k].exit = ExitClose(i, pick[1])

\* C8, amended: with a 1-day hold a pick whose next-trading-day open differs
\* from the signal day's close by more than 20% is never entered at that open:
\* its entry price is the signal day's close, and it is excluded from trades
\* exactly when the exit-day snapshot is missing or has close 0, or the
\* exit-day close differs from the signal day's close by more than 20%;
\* total_trades is the length of the list.
C8_OpenGapFallsBack ==
    (ret.op = "run_backtest" /\ ret.hold = 1) =>
        /\ ret.val.total_trades = Len(ret.val.trades)
        /\ \A i \in EntryDates :
               \A j \in 1..Len(PicksOn(i)) :
                   OpenGapped(i, PicksOn(i)[j]) => GapFallsBack(i, PicksOn(i)[j])

\* a 1-day run that recorded the trade of a pick whose next open gapped
C8_Witness ==
    /\ ret.op = "run_backtest"
    /\ ret.hold = 1
    /\ \E i \in EntryDates :
           \E j \in 1..Len(PicksOn(i)) :
               /\ OpenGapped(i, PicksOn(i)[j])
               /\ TradesFor(i, PicksOn(i)[j][1]) # {}

\* the pick has a close above 0 and the bar of its entry date, the trading
\* date after the signal, is missing or has open <= 0
BadBar(i, pick) ==
    /\ pick[3] > 0
    /\ \/ "open" \notin DOMAIN NextBar(i, pick[1])
       \/ NextBar(i, pick[1])["open"] <= 0

\* C9: in run_backtest a pick whose entry-day OHLC bar is missing from the
\* cache or has open <= 0 is rejected: it has no trade in the list.
C9_BadBarRejected ==
    (ret.op = "run_backtest") =>
        \A i \in EntryDates :
            \A j \in 1..Len(PicksOn(i)) :
                BadBar(i, PicksOn(i)[j]) => TradesFor(i, PicksOn(i)[j][1]) = {}

--------------------------------------------------------------------------
(* Claims about absent fields of a snapshot, checked under SpecScore *)

NumericFields ==
    {"pcr", "pcr_change_1d", "oi_change_pct", "volume_times", "delivery_times", "change_pct"}

\* the numeric fields the snapshot s lacks
AbsentNumeric == NumericFields \ DOMAIN s

\* C11: for every snapshot and every numeric field, base_score, score_breakdown
\* and outrunner_conviction return the same result when the field is absent as
\* when it is present with value 0.
C11_AbsentIsZero ==
    /\ (ret.op = "base_score") =>
           \A f \in AbsentNumeric : ret.val = base_score(Put(s, f, 0))
    /\ (ret.op = "score_breakdown") =>
           \A f \in AbsentNumeric : ret.val = score_breakdown(Put(s, f, 0))
    /\ (ret.op = "outrunner_conviction") =>
           \A f \in AbsentNumeric : ret.val = outrunner_conviction(Put(s, f, 0))

\* the input fields of each factor of outrunner_conviction
FactorInputs ==
    [ r \in ConvictionFactors |->
        CASE r = "OI Trend" -> {"oi_trend"}
          [] r = "MCap" -> {"mcap_category"}
          [] r = "Volume" -> {"volume_times"}
          [] r = "Delivery" -> {"delivery_times"}
          [] r = "Momentum" -> {"change_pct"}
          [] r = "PCR Signal" -> {"pcr", "pcr_change_1d"}
          [] r = "OI Buildup" -> {"oi_change_pct"} ]

\* C12: in outrunner_conviction every factor whose input fields are absent
\* from the snapshot contributes 0 points, and a snapshot without any scoring
\* field has conviction 0.
C12_AbsentFactorIsZero ==
    (ret.op = "outrunner_conviction") =>
        /\ \A r \in ConvictionFactors :
               (FactorInputs[r] \cap DOMAIN s = {}) => ret.val.reasons[r][1] = 0
        /\ (DOMAIN s \cap ScoreFields = {}) => ret.val.conviction = 0

--------------------------------------------------------------------------
(* Claims about the percent-change helpers, checked under SpecEnrich *)

\* the previous-day snapshot
PrevStock == data[1]

\* the enriched field is None when the previous day's denominator is <= 0
NoneWhenNotPositive(field, oi_field) ==
    (Get(PrevStock, oi_field, 0) <= 0) => ret.val[field] = Nothing

\* C13: _pct_chg, and through it enrich_oi_change_pct for call and put OI,
\* returns None whenever the previous-day snapshot is missing or the
\* previous-day denominator is <= 0 (zero, absent or negative);
\* enrich_oi_change_pct(s, None) has both change fields None.
C13_NoneUnlessPositive ==
    /\ (ret.op = "_pct_chg") => ((ret.prev <= 0) => ret.val = Nothing)
    /\ (ret.op = "enrich_oi_change_pct" /\ PrevStock = None) =>
           /\ ret.val["call_oi_change_pct"] = Nothing
           /\ ret.val["put_oi_change_pct"] = Nothing
    /\ (ret.op = "enrich_oi_change_pct" /\ PrevStock # None) =>
           /\ NoneWhenNotPositive("call_oi_change_pct", "cumulative_call_oi")
           /\ NoneWhenNotPositive("put_oi_change_pct", "cumulative_put_oi")

\* the run resolved no prices for the pick: its close is not above 0, its exit
\* snapshot is missing or has close 0, or its prices move beyond the limit
Rejected(i, pick) ==
    \/ pick[3] <= 0
    \/ ~HasExit(i, pick[1])
    \/ OverLimit(i, pick)

\* no trade results from the cache: every pick of every entry date is rejected
\* (there may be no entry date, or no pick)
NoTradeResults == \A i \in EntryDates : \A j \in 1..Len(PicksOn(i)) : Rejected(i, PicksOn(i)[j])

\* C14: run_backtest on a cache from which no trade results (no dates, no more
\* than hold dates, no picks, or every pick rejected) returns a result whose
\* trades list is empty, whose total_trades, total_pnl, return_pct, win_rate,
\* profit_factor, avg_win_pct, avg_loss_pct and max_dd are all 0 and whose
\* monthly map is empty.
C14_ZeroResult ==
    (ret.op = "run_backtest" /\ NoTradeResults) =>
        /\ ret.val.trades = <<>>
        /\ ret.val.total_trades = 0
        /\ ret.val.total_pnl = 0
        /\ ret.val.return_pct = 0
        /\ ret.val.win_rate = 0
        /\ ret.val.profit_factor = 0
        /\ ret.val.avg_win_pct = 0
        /\ ret.val.avg_loss_pct = 0
        /\ ret.val.max_dd = 0
        /\ DOMAIN ret.val.monthly = {}

\* a run over enough dates whose picks were all rejected
C14_Witness ==
    /\ ret.op = "run_backtest"
    /\ NoTradeResults
    /\ \E i \in EntryDates : Len(PicksOn(i)) >= 1
    /\ ret.val.trades = <<>>

--------------------------------------------------------------------------
(* Claims about the detectors on short date lists, checked under SpecDetectors *)

\* C15: with fewer dates than a detector requires the result is empty:
\* detect_trend_flips and sector_rotation return an empty list for fewer than 2
\* dates, score_streaks for fewer than min_days dates, and get_action_sheet for
\* an empty date list or a view date absent from the data.
C15_TooFewDates ==
    /\ (ret.op \in {"detect_trend_flips", "sector_rotation"} /\ Len(ret.dates) < 2) =>
           ret.val = <<>>
    /\ (ret.op = "score_streaks" /\ Len(ret.dates) < ret.min_days) => ret.val = <<>>
    /\ (ret.op = "get_action_sheet"
            /\ (ret.dates = <<>> \/ ret.view_date \notin DOMAIN data)) =>
           ret.val = <<>>

\* get_action_sheet returned no row for an empty date list, on a view date
\* that has snapshots
C15_Witness ==
    /\ ret.op = "get_action_sheet"
    /\ ret.dates = <<>>
    /\ Day(data, ret.view_date) # <<>>
    /\ ret.val = <<>>

--------------------------------------------------------------------------
(* Claims about the sector rotation, checked under SpecRotation.  They are  *)
(* stated on the call that ret holds.                                       *)

\* the stocks of the call's market-cap filter on dates[-k] of the call
StocksBack(k) == SectorFilter(data, ret.dates[Len(ret.dates) + 1 - k], ret.mcap_filter)

\* the percent change of the sector's summed OI from dates[-2] to dates[-1],
\* None when the sum of dates[-2] is not above 0
DayOverDay(sec, key) ==
    IF SectorSum(StocksBack(2), sec, key) > 0
    THEN PctChg(SectorSum(StocksBack(1), sec, key), SectorSum(StocksBack(2), sec, key))
    ELSE Nothing

\* C16: for every sector row of sector_rotation and every window, the aggregate
\* call OI and put OI percent changes compare the sector's summed OI on
\* dates[-1] with its summed OI on dates[-2], never with the window-days-ago
\* date, and each is None when the sum of dates[-2] is not above 0, as it is
\* when the sector has no stocks on dates[-2].
C16_PreviousDayOnly ==
    (ret.op = "sector_rotation" /\ Len(ret.dates) >= 2) =>
        \A i \in 1..Len(ret.val) :
            /\ ret.val[i].Agg_Call_OI_Chg = DayOverDay(ret.val[i].Sector, "cumulative_call_oi")
            /\ ret.val[i].Agg_Put_OI_Chg = DayOverDay(ret.val[i].Sector, "cumulative_put_oi")

\* C17, as stated: the coefficients of compute_sector_direction sum to 1.0 and
\* the composite score of every sector row lies in [-1, +1].
C17_WeightsSumToOne ==
    /\ SumValues(DirectionWeights) = 10000
    /\ (ret.op = "sector_rotation") =>
           \A i \in 1..Len(ret.val) :
               -100 <= ret.val[i].direction_score /\ ret.val[i].direction_score <= 100

\* C17, amended: the nine coefficients sum to 1.4 and the direction_score of
\* every sector row lies in [-1.4, +1.4].
C17_WeightsSumTo14 ==
    /\ SumValues(DirectionWeights) = 14000
    /\ (ret.op = "sector_rotation") =>
           \A i \in 1..Len(ret.val) :
               -140 <= ret.val[i].direction_score /\ ret.val[i].direction_score <= 140

\* a sector row whose direction_score is beyond 1.0
C17_Witness ==
    /\ ret.op = "sector_rotation"
    /\ \E i \in 1..Len(ret.val) :
           ret.val[i].direction_score > 100 \/ ret.val[i].direction_score < -100

\* the date sector_rotation takes as the past date of its window, as an index
\* of the call's date list
PastIndex ==
    IF Len(ret.dates) - WindowOf(Len(ret.dates), ret.window) - 1 > 0
    THEN Len(ret.dates) - WindowOf(Len(ret.dates), ret.window)
    ELSE 1

\* the bullish percentage of the sector on dates[idx] of the call, in tenths
BullPctOn(idx, sec) ==
    StatGet(sector_stats(SectorFilter(data, ret.dates[idx], ret.mcap_filter)), sec,
            [bull_pct |-> 0]).bull_pct

\* C18: every sector row of sector_rotation carries a bull% delta, the sector's
\* bullish percentage on the latest date minus that on the past date of the
\* window.
C18_BullDelta ==
    (ret.op = "sector_rotation") =>
        \A i \in 1..Len(ret.val) :
            /\ "Bull_Delta" \in DOMAIN ret.val[i]
            /\ ret.val[i]["Bull_Delta"] =
                   BullPctOn(Len(ret.dates), ret.val[i].Sector)
                   - BullPctOn(PastIndex, ret.val[i].Sector)

--------------------------------------------------------------------------
(* Claims about the action sheet, checked under SpecSheet.  They are stated *)
(* on the call that ret holds.                                              *)

\* the bonus the claim gives a sector whose direction_score among the rows rot
\* of sector_rotation is the one of sec, a sector without a row counting as 0
BonusOf(rot, sec) ==
    CASE SectorScore(rot, sec) > 30 -> 3
      [] SectorScore(rot, sec) < 0 -> 0
      [] OTHER -> 1

\* every row's rec_score is the claimed sum, for the rows rot of
\* sector_rotation and the map conv of signal_convergence
RecScoresAdd(rows, rot, conv) ==
    \A i \in 1..Len(rows) :
        rows[i].rec_score =
            rows[i].conviction + rows[i].score
            + 2 * Len(Get(conv, rows[i].symbol, <<>>))
            + BonusOf(rot, rows[i].sector)

\* C19: for every row of get_action_sheet, rec_score = conviction + score
\* + 2 * (number of signals listed for the symbol) + sector_bonus, where
\* sector_bonus is 3 if the direction_score of the stock's sector is above
\* 0.3, 1 if it is between 0 and 0.3 (a sector without a row counting as 0),
\* and 0 if it is negative; the direction_score is the one of sector_rotation
\* with window 5 on the call's dates and market-cap filter, the signals those
\* of signal_convergence.
C19_RecScore ==
    (ret.op = "get_action_sheet") =>
        RecScoresAdd(ret.val,
            get_sector_bull_delta(data, ret.dates, ret.view_date, ret.mcap_filter),
            signal_convergence(data, ret.dates, ret.view_date))

\* some row is of a sector scoring above 0.3 and lists a signal, and some row
\* lists none
StrongAndSilent(rows, rot, conv) ==
    \E i, j \in 1..Len(rows) :
        /\ SectorScore(rot, rows[i].sector) > 30
        /\ Get(conv, rows[i].symbol, <<>>) # <<>>
        /\ Get(conv, rows[j].symbol, <<>>) = <<>>

\* a sheet with a row of a sector scoring above 0.3 that lists a signal and
\* a row that lists none
C19_Witness ==
    /\ ret.op = "get_action_sheet"
    /\ StrongAndSilent(ret.val,
           get_sector_bull_delta(data, ret.dates, ret.view_date, ret.mcap_filter),
           signal_convergence(data, ret.dates, ret.view_date))

\* the place of the row's symbol in the snapshot map of the view date
PlaceOf(row) ==
    CHOOSE k \in 1..Len(data[ret.view_date]) : data[ret.view_date][k]["symbol"] = row.symbol

SortKey(row) == <<row.rec_score, row.conviction, row.score>>

\* C20: the rows returned by get_action_sheet are ordered by (rec_score,
\* conviction, score) descending, and rows equal on all three keep the order
\* in which their symbols occur in the snapshot map of the view date.
C20_OrderedStable ==
    (ret.op = "get_action_sheet") =>
        \A i, j \in 1..Len(ret.val) :
            (i < j) =>
                /\ ~LexLess(SortKey(ret.val[i]), SortKey(ret.val[j]))
                /\ (SortKey(ret.val[i]) = SortKey(ret.val[j]))
                       => PlaceOf(ret.val[i]) < PlaceOf(ret.val[j])

\* a sheet of two rows equal on all three keys, B's before A's as in the map
C20_Witness ==
    /\ ret.op = "get_action_sheet"
    /\ Len(ret.val) = 2
    /\ SortKey(ret.val[1]) = SortKey(ret.val[2])
    /\ ret.val[1].symbol = "B"
    /\ ret.val[2].symbol = "A"

--------------------------------------------------------------------------
(* Claims about the cache, checked under SpecReload.                        *)

\* the maps a cache holds when it holds the dates dts of the database as a
\* whole and nothing else
WholeData(dts) == [d \in Range(dts) |-> DayDict(s.days[d].snap, B_C29)]

WholeOhlc(dts) ==
    [sym \in {x \in {"A", "B"} : dts # <<>> /\ (x = "B" \/ \E d \in Range(dts) : s.days[d].bar # None)} |->
        [d \in {x \in Range(dts) : sym = "B" \/ s.days[x].bar # None} |->
            IF sym = "B" THEN Bar(20000) ELSE s.days[d].bar]]

\* C21: a cache that is loaded again never shows the new dates with maps of
\* the old range, a partly filled map, or snapshots of dates outside the
\* newly loaded range: while the reload runs the cache is as it was before
\* or holds the new dates with exactly their maps, and after it the cache
\* holds its dates with exactly their maps.
C21_ReloadSwaps ==
    /\ (ret.op = "load" /\ ret.again) =>
           \/ dates = ret.was.dates /\ data = ret.was.data /\ ohlc = ret.was.ohlc
           \/ data = WholeData(dates) /\ ohlc = WholeOhlc(dates)
    /\ (ret = NoCall) => (data = WholeData(dates) /\ ohlc = WholeOhlc(dates))

--------------------------------------------------------------------------
(* Claims about the signal functions as a whole, checked under SpecPure.    *)

--------------------------------------------------------------------------
(* Claims about signal_convergence, checked under SpecPure on the calls     *)
(* whose view date is one of the dates handed in.                           *)

\* the tags the claim gives the snapshot of the view date v: each detector
\* is read at v, with the date before v as the preceding date
TagsAt(snap, v) ==
    (IF snap["symbol"] \in SymbolSet(detect_trend_flips(data, DatesUpTo(v)))
     THEN <<"Flip">> ELSE <<>>)
    \o (IF snap["symbol"] \in SymbolSet(pcr_extremes(data, v, 50, 150).low_pcr)
                              \cup SymbolSet(pcr_extremes(data, v, 50, 150).high_pcr)
        THEN <<"PCR">> ELSE <<>>)
    \o (IF snap["symbol"] \in SymbolSet(delivery_spikes(data, v, 200))
        THEN <<"Dlv">> ELSE <<>>)
    \o (IF snap["symbol"] \in SymbolSet(score_streaks(data, DatesUpTo(v), 3, 20, 34))
        THEN <<"Streak">> ELSE <<>>)
    \o (IF call_put_divergence(snap, Lookup(Day(data, v - 1), snap["symbol"])) = "bullish"
        THEN <<"CallPut">> ELSE <<>>)

\* C23: for every view_date that occurs in dates, also when it is not the
\* last one, signal_convergence tags a symbol with Flip exactly when its
\* trend flipped from bearish on the date before view_date to bullish on
\* view_date, with Streak exactly when it was in the sweet spot on the 3
\* dates ending at view_date, with PCR and Dlv exactly when its view_date
\* snapshot is a PCR extreme or a delivery spike, and with CallPut exactly
\* when its call/put divergence from the date before view_date is bullish.
C23_TagsOfViewDate ==
    (ret.op = "signal_convergence" /\ ret.view_date \in 1..ret.n) =>
        \A i \in 1..Len(data[ret.view_date]) :
            Get(ret.val, data[ret.view_date][i]["symbol"], <<>>)
                = TagsAt(data[ret.view_date][i], ret.view_date)

--------------------------------------------------------------------------
(* Claims about the loop of run_backtest, checked under SpecBacktest *)

\* the positions in the returned trades of the trades entered on dates[i]
TradesOn(i) == {k \in 1..Len(ret.val.trades) : ret.val.trades[k].date = dates[i]}

\* the trade at position k was entered on a date the run may enter on and
\* leaves hold dates later
EntersAndExits(k) ==
    \E i \in EntryDates :
        /\ ret.val.trades[k].date = dates[i]
        /\ ret.val.trades[k].exit_date = dates[i + ret.hold]

\* C24 (a date is the number of its day, so dates compare as numbers):
\* run_backtest visits the dates in ascending order and enters trades
\* only on indices i with i + hold < len(dates); every recorded trade entered
\* on dates[i] has exit_date dates[i + hold], no entry date has more than
\* top_n trades, and exactly one equity point is recorded per visited date, in
\* date order.
C24_VisitOrder ==
    (ret.op = "run_backtest") =>
        /\ \A k \in 1..Len(ret.val.trades) : EntersAndExits(k)
        /\ \A k \in 1..(Len(ret.val.trades) - 1) :
               ret.val.trades[k].date
                   <= ret.val.trades[k + 1].date
        /\ \A i \in EntryDates : Cardinality(TradesOn(i)) <= ret.top_n
        /\ Len(ret.val.equity) = Cardinality(EntryDates)
        /\ \A k \in 1..Len(ret.val.equity) : ret.val.equity[k].date = dates[k]

\* a run that visited two dates, took two trades on the first and a trade on
\* the second
C24_Witness ==
    /\ ret.op = "run_backtest"
    /\ Len(ret.val.equity) = 2
    /\ Cardinality(TradesOn(1)) = 2
    /\ TradesOn(2) # {}

--------------------------------------------------------------------------
(* Claims about the equity curve, checked under SpecEquity *)

\* the equity recorded for the k-th visited date
EquityAt(k) == ret.val.equity[k].equity

\* the largest number of a non-empty finite set
MaxOf(S) == CHOOSE x \in S : \A y \in S : y <= x

\* the sum of the pnl of the returned trades entered on dates[k] or earlier
PnlUpTo(k) == SumField(SelectSeq(ret.val.trades, LAMBDA t : t.date <= dates[k]), "pnl")

\* every equity point is the cumulative pnl of the trades entered so far
EquityCumulates == \A k \in 1..Len(ret.val.equity) : EquityAt(k) = PnlUpTo(k)

\* the highest equity recorded at or before the k-th point
RecordedPeak(k) == MaxOf({EquityAt(j) : j \in 1..k})

\* C25, as stated: in a run_backtest result with at least one trade, the
\* equity point of each date is the cumulative P&L of all trades entered on
\* that date or earlier, and max_dd is the largest value, over the equity
\* points, of (highest equity recorded at or before the point) minus (equity
\* at the point).
C25_DrawdownFromRecordedPeak ==
    (ret.op = "run_backtest" /\ Len(ret.val.trades) >= 1) =>
        /\ EquityCumulates
        /\ ret.val.max_dd
               = MaxOf({RecordedPeak(k) - EquityAt(k) : k \in 1..Len(ret.val.equity)})

\* the highest equity at or before the k-th point, the equity 0 the run starts
\* from included
PeakFromStart(k) == MaxOf({0} \cup {EquityAt(j) : j \in 1..k})

\* C25, amended: in a run_backtest result with at least one trade, the equity
\* point of each date is the cumulative P&L of all trades entered on that date
\* or earlier, and max_dd is the largest value, over the equity points, of
\* (highest equity at or before the point, counting the equity 0 the run
\* starts from) minus (equity at the point).
C25_DrawdownFromStart ==
    (ret.op = "run_backtest" /\ Len(ret.val.trades) >= 1) =>
        /\ EquityCumulates
        /\ ret.val.max_dd
               = MaxOf({PeakFromStart(k) - EquityAt(k) : k \in 1..Len(ret.val.equity)})

\* a run whose equity rose above 0 and then fell
C25_Witness ==
    /\ ret.op = "run_backtest"
    /\ Len(ret.val.equity) = 2
    /\ EquityAt(1) > 0
    /\ EquityAt(2) < EquityAt(1)
    /\ ret.val.max_dd = EquityAt(1) - EquityAt(2)

--------------------------------------------------------------------------
(* Claims about the prices of a trade, checked under SpecBacktest *)

\* the pick has a close above 0 and the bar of the next trading date has an
\* open above 0
HasOpen(i, pick) ==
    /\ pick[3] > 0
    /\ "open" \in DOMAIN NextBar(i, pick[1])
    /\ NextBar(i, pick[1])["open"] > 0

\* the entry price the claim gives a pick with such a bar: that open when
\* |open - c| / c * 100 <= 20, else the close c of the signal day
OpenOrClose(i, pick) ==
    IF ~MovesMoreThan(pick[3], NextBar(i, pick[1])["open"], 20)
    THEN NextBar(i, pick[1])["open"]
    ELSE pick[3]

\* every trade of the pick has the given entry price and leaves at the close
\* of the exit date
TradedAt(i, pick, entry) ==
    \A k \in TradesFor(i, pick[1]) :
        /\ ret.val.trades[k].entry = entry
        /\ ret.val.trades[k].exit = ExitClose(i, pick[1])

\* C26: for a pick on dates[i] with signal-day close c > 0 whose
\* next-trading-day OHLC bar has open > 0, the entry price of the trade is
\* that open when |open - c| / c * 100 <= 20 and is c otherwise; the exit
\* price is the close of the symbol's snapshot on dates[i + hold], and a pick
\* with no snapshot or a zero close on that date produces no trade.
C26_EntryAndExit ==
    (ret.op = "run_backtest") =>
        \A i \in EntryDates :
            \A j \in 1..Len(PicksOn(i)) :
                /\ HasOpen(i, PicksOn(i)[j]) =>
                       TradedAt(i, PicksOn(i)[j], OpenOrClose(i, PicksOn(i)[j]))
                /\ ~HasExit(i, PicksOn(i)[j][1]) => TradesFor(i, PicksOn(i)[j][1]) = {}

\* a run that recorded a trade entered at a next-day open exactly 20% away
\* from the signal day's close, and dropped a pick that had no exit snapshot
C26_Witness ==
    /\ ret.op = "run_backtest"
    /\ \E i \in EntryDates :
           \E j \in 1..Len(PicksOn(i)) :
               /\ HasOpen(i, PicksOn(i)[j])
               /\ Abs(NextBar(i, PicksOn(i)[j][1])["open"] - PicksOn(i)[j][3]) * 100
                      = 20 * PicksOn(i)[j][3]
               /\ TradesFor(i, PicksOn(i)[j][1]) # {}
    /\ \E i \in EntryDates :
           \E j \in 1..Len(PicksOn(i)) :
               /\ PicksOn(i)[j][3] > 0
               /\ ~HasExit(i, PicksOn(i)[j][1])

--------------------------------------------------------------------------
(* Claims about the two price resolvers, checked under SpecResolve *)

\* C27: for hold = 1 the two price resolvers agree: for every cache, symbol,
\* signal-day close and date index i with i + 1 < len(dates),
\* exit_price(symbol, close, dates[i + 1]) and multi_exit(symbol, close, i, 1)
\* return the same result (the same entry/exit pair, or both None); the trade
\* run_backtest records is made of that result alone, so it records the same
\* trades whichever of the two it calls.
C27_ResolversAgree ==
    /\ (ret.op = "exit_price") =>
           ret.val = multi_exit(data, ohlc, dates, ret.symbol, ret.entry_close, ret.idx, 1)
    /\ (ret.op = "multi_exit" /\ ret.hold = 1 /\ ret.idx + 1 <= Len(dates)) =>
           ret.val = exit_price(data, ohlc, ret.symbol, ret.entry_close, dates[ret.idx + 1])

\* multi_exit with a 1-day hold resolved a pair entered at the next day's open
C27_Witness ==
    /\ ret.op = "multi_exit"
    /\ ret.hold = 1
    /\ ret.val # <<>>
    /\ ret.val[1] # ret.entry_close

--------------------------------------------------------------------------
(* Claims about the liquidity guard, checked under SpecBacktest *)

\* the snapshot fails the liquidity guard: volume_times < 0.7 and pcr >= 1,
\* an absent pcr counting as 1
FailsGuard(snap) == Get(snap, "volume_times", 0) < 70 /\ Get(snap, "pcr", 100) >= 100

\* the snapshot of the pick on the date it was picked
PickedSnap(i, pick) == SnapOf(Day(data, dates[i]), pick[1])

\* C28: none of the four registered strategies ever returns a symbol whose
\* snapshot on the pick date fails the liquidity guard (volume_times < 0.7 and
\* pcr >= 1, an absent pcr counting as 1); hence no backtest trade is entered
\* on such a snapshot.
C28_PicksPassGuard ==
    (ret.op = "run_backtest") =>
        /\ \A i \in EntryDates :
               \A j \in 1..Len(PicksOn(i)) : ~FailsGuard(PickedSnap(i, PicksOn(i)[j]))
        /\ \A k \in 1..Len(ret.val.trades) :
               ~FailsGuard(SnapOf(Day(data, ret.val.trades[k].date),
                                  ret.val.trades[k].symbol))

--------------------------------------------------------------------------
(* Claims about the window of the sector rotation, checked under SpecRotation *)

\* the statistics of the sector on the latest date of the call
NowStat(sec) == StatGet(sector_stats(StocksBack(1)), sec, EmptyDict)

\* the call consults no past date for the sector: the window is 0, or the
\* sector has no stocks of the call's filter on the past date of the window
NoPast(sec) ==
    \/ ret.window = 0
    \/ SectorCount(SectorFilter(data, ret.dates[PastIndex], ret.mcap_filter), sec) = 0

\* the direction score of the row when the delivery and volume deltas are 0
\* and the change % delta is the sector's own average change %
ScoreWithoutPast(row) ==
    RoundDiv(DirectionSum(NowStat(row.Sector).avg_dlv, NowStat(row.Sector).avg_dlv,
                          NowStat(row.Sector).avg_vol, NowStat(row.Sector).avg_vol,
                          NowStat(row.Sector).avg_chg, NowStat(row.Sector).avg_oi_chg,
                          NowStat(row.Sector).avg_chg,
                          row.Agg_Call_OI_Chg, row.Agg_Put_OI_Chg), 100)

\* the deltas of the row are those of a sector without a past
RowWithoutPast(row) ==
    /\ row.PCR_Delta = 0
    /\ row.Chg_Delta = NowStat(row.Sector).avg_chg
    /\ row.direction_score = ScoreWithoutPast(row)

\* C30: in sector_rotation with window = 0 (same-day only) and at least two
\* dates, no past date is consulted for the window deltas: every sector row
\* has PCR delta 0 and a change% delta equal to the sector's own average
\* change % of the latest date (the missing past average counts as 0), and the
\* delivery and volume deltas fed to the direction score are 0; the same
\* holds, for any window, for a sector that has no stocks on the past date.
C30_NoPastDeltas ==
    (ret.op = "sector_rotation" /\ Len(ret.dates) >= 2) =>
        \A i \in 1..Len(ret.val) : NoPast(ret.val[i].Sector) => RowWithoutPast(ret.val[i])

\* the sector's delivery average moved by more than 0.1 since dates[-2]
DeliveryMoved(sec) ==
    /\ SectorCount(StocksBack(2), sec) > 0
    /\ Abs(NowStat(sec).avg_dlv
           - StatGet(sector_stats(StocksBack(2)), sec, EmptyDict).avg_dlv) > 10

\* a same-day call with a row of a sector whose change % is not 0 and whose
\* delivery average differs from the day before
C30_Witness ==
    /\ ret.op = "sector_rotation"
    /\ ret.window = 0
    /\ \E i \in 1..Len(ret.val) :
           /\ ret.val[i].Agg_Chg # 0
           /\ DeliveryMoved(ret.val[i].Sector)

--------------------------------------------------------------------------
(* Claims about the sector bonus and the Direction label, checked under SpecBonus *)

\* the sector bonus in the rec_score of a row of the sheet
BonusIn(row) == row.rec_score - row.conviction - row.score - 2 * Len(row.signals)

\* the sector has a row labelled Improving among the rows rot
Improving(rot, sec) ==
    \E i \in 1..Len(rot) : rot[i].Sector = sec /\ rot[i].Direction = "Improving"

\* the rows of the sheet get the bonus 3 exactly in the sectors labelled Improving
BonusFollowsLabel(rows, rot) ==
    \A i \in 1..Len(rows) : (BonusIn(rows[i]) = 3) <=> Improving(rot, rows[i].sector)

\* C29: the sector bonus of the recommender is consistent with the sector's
\* Direction: with at least two dates, a stock in get_action_sheet receives
\* sector_bonus 3 exactly when the row of its sector in
\* sector_rotation(data, dates, window=5, mcap_filter) has Direction
\* "Improving", although Direction is decided on the unrounded composite score
\* and the bonus on direction_score rounded to 2 decimals.
C29_BonusMatchesDirection ==
    (ret.op = "get_action_sheet" /\ Len(ret.dates) >= 2) =>
        BonusFollowsLabel(ret.val, sector_rotation(data, ret.dates, 5, ret.mcap_filter))

==========================================================================
